---- MODULE Spec2Model ----
(***************************************************************************)
(* Model of the /search endpoint of the Flashpoint database API            *)
(* (searchHandler, the field registry built in main, and the limit         *)
(* policy).  Text supplied by the client and text stored in the database   *)
(* is a sequence of one-character strings, so that splitting, escaping and *)
(* lower-casing are computed character by character.  Text the program     *)
(* writes itself (SQL, field names) is a TLA+ string built with \o.        *)
(* Go slices are 0-based; the sequences here are 1-based, and "not found"  *)
(* (-1 in Go) is 0 here.                                                   *)
(***************************************************************************)
EXTENDS Integers, Sequences, FiniteSets, TLC

VARIABLES
    fieldIterator,      \* the field registry (struct of parallel slices)
    tagsIndex,          \* position of the field named "tags" in the registry
    config,             \* SearchLimit (ceiling) and FilteredTags (blocklist)
    pc,                 \* position of the handler: idle, query, rows, done, panic
    urlQuery,           \* query parameters of the request being handled
    operator,           \* " AND " or " OR "
    whereLike,          \* the parenthesised groups of the WHERE clause
    whereVal,           \* the bound arguments
    outputQueries,      \* source expressions of the inner SELECT
    outputIndices,      \* registry positions of the scanned columns
    outputColumns,      \* column names of the outer SELECT
    outputTagsIndex,    \* position of the tags column in outputIndices
    outputTagsAppend,   \* TRUE when the tags column was appended
    mergeText,          \* the LEFT JOIN text, or ""
    limit,              \* the resolved limit
    dbQuery,            \* the text of the compiled statement
    rows,               \* the cursor: the rows it delivers (JoinedRow)
    rowIdx,             \* number of rows taken from the cursor
    jsonObjects,        \* the objects accumulated for the response
    status,             \* response status
    body,               \* response body; NoBody until written
    nQueries,           \* calls of db.Query made for the current request
    iStats,             \* statsHandler: its loop counter i (1..3 here)
    stats               \* statsHandler: the totals collected so far

vars == <<fieldIterator, tagsIndex, config, pc, urlQuery, operator, whereLike,
          whereVal, outputQueries, outputIndices, outputColumns,
          outputTagsIndex, outputTagsAppend, mergeText, limit, dbQuery, rows,
          rowIdx, jsonObjects, status, body, nQueries, iStats, stats>>

-----------------------------------------------------------------------------
(* Bounds *)

MaxValLen == 2        \* longest filter sub-value or smart-search term
MaxColLen == 3        \* longest column value the LIKE claims range over
MaxRawLen == 3        \* longest raw value the serialisation claim ranges over

-----------------------------------------------------------------------------
(* Text helpers: Go's strings, slices, strconv and fmt on character         *)
(* sequences.                                                               *)

RECURSIVE Str(_)
Str(s) == IF s = <<>> THEN "" ELSE Head(s) \o Str(Tail(s))

RECURSIVE Join(_, _)
Join(elems, sep) ==
    IF elems = <<>> THEN ""
    ELSE IF Len(elems) = 1 THEN elems[1]
    ELSE elems[1] \o sep \o Join(Tail(elems), sep)

RECURSIVE JoinSeq(_, _)
JoinSeq(elems, sep) ==
    IF elems = <<>> THEN <<>>
    ELSE IF Len(elems) = 1 THEN elems[1]
    ELSE elems[1] \o sep \o JoinSeq(Tail(elems), sep)

\* strings.Index: the first position where sep occurs in s, 0 when absent
IndexOfSub(s, sep) ==
    LET hits == {i \in 1..(Len(s) - Len(sep) + 1) :
                    SubSeq(s, i, i + Len(sep) - 1) = sep}
    IN IF hits = {} THEN 0 ELSE CHOOSE i \in hits : \A j \in hits : i <= j

RECURSIVE Split(_, _)
Split(s, sep) ==
    LET i == IndexOfSub(s, sep)
    IN IF i = 0 THEN <<s>>
       ELSE <<SubSeq(s, 1, i - 1)>> \o Split(SubSeq(s, i + Len(sep), Len(s)), sep)

UpperChars == <<"A","B","C","D","E","F","G","H","I","J","K","L","M",
                "N","O","P","Q","R","S","T","U","V","W","X","Y","Z">>
LowerChars == <<"a","b","c","d","e","f","g","h","i","j","k","l","m",
                "n","o","p","q","r","s","t","u","v","w","x","y","z">>

ToLowerChar(c) ==
    IF \E i \in 1..26 : UpperChars[i] = c
    THEN LowerChars[CHOOSE i \in 1..26 : UpperChars[i] = c]
    ELSE c

ToLower(s) == [i \in 1..Len(s) |-> ToLowerChar(s[i])]

\* slices.Index and slices.Contains
SliceIndex(s, v) ==
    IF \E i \in 1..Len(s) : s[i] = v
    THEN CHOOSE i \in 1..Len(s) : s[i] = v /\ \A j \in 1..(i - 1) : s[j] # v
    ELSE 0

Contains(s, v) == \E i \in 1..Len(s) : s[i] = v

Digits == <<"0","1","2","3","4","5","6","7","8","9">>

IsDigit(c) == \E i \in 1..10 : Digits[i] = c

DigitVal(c) == (CHOOSE i \in 1..10 : Digits[i] = c) - 1

RECURSIVE DigitsVal(_)
DigitsVal(s) ==
    IF s = <<>> THEN 0
    ELSE DigitsVal(SubSeq(s, 1, Len(s) - 1)) * 10 + DigitVal(s[Len(s)])

\* strconv.Atoi: an optional sign, then one or more decimal digits.  The
\* range error of a value outside int needs a text of 19 digits or more; the
\* texts of LimitTexts are shorter, so it does not arise.
Atoi(s) ==
    LET signed == s # <<>> /\ s[1] \in {"+", "-"}
        ds     == IF signed THEN Tail(s) ELSE s
        wellFormed == ds # <<>> /\ \A i \in 1..Len(ds) : IsDigit(ds[i])
        mag    == DigitsVal(ds)
        val    == IF signed /\ s[1] = "-" THEN 0 - mag ELSE mag
    IN IF wellFormed
       THEN [err |-> FALSE, i |-> val]
       ELSE [err |-> TRUE, i |-> 0]

\* fmt's %d
RECURSIVE FormatInt(_)
FormatInt(n) ==
    IF n < 0 THEN "-" \o FormatInt(0 - n)
    ELSE IF n < 10 THEN Digits[n + 1]
    ELSE FormatInt(n \div 10) \o Digits[(n % 10) + 1]

-----------------------------------------------------------------------------
(* url.Values: a request is a function from parameter names to values.     *)

Has(q, k) == k \in DOMAIN q

Get(q, k) == IF k \in DOMAIN q THEN q[k] ELSE <<>>

-----------------------------------------------------------------------------
(* The configuration: main() copies config.MetadataFields into the         *)
(* parallel slices of fieldIterator and looks up the field named "tags".   *)

Field(name, columnName, query, dataTable, type) ==
    [Name |-> name, ColumnName |-> columnName, Query |-> query,
     DataTable |-> dataTable, Type |-> type]

MetadataFields ==
    << Field("id", "id", "game.id", FALSE, "string"),
       Field("library", "library", "game.library", FALSE, "string"),
       Field("title", "title", "game.title", FALSE, "string"),
       Field("alternateTitles", "alternateTitles", "game.alternateTitles", FALSE, "string"),
       Field("series", "series", "game.series", FALSE, "string"),
       Field("developer", "developer", "game.developer", FALSE, "string"),
       Field("publisher", "publisher", "game.publisher", FALSE, "string"),
       Field("tags", "tagsStr", "game.tagsStr", FALSE, "array"),
       Field("platform", "platform", "game.platform", FALSE, "string"),
       Field("applicationPath", "applicationPath",
             "coalesce(game_data.applicationPath,game.applicationPath) AS applicationPath",
             TRUE, "string"),
       Field("zipped", "activeDataOnDisk", "game.activeDataOnDisk", FALSE, "bool") >>

\* the registry with title configured before library
TitleFirstFields ==
    [i \in 1..Len(MetadataFields) |->
        IF i = 2 THEN MetadataFields[3]
        ELSE IF i = 3 THEN MetadataFields[2]
        ELSE MetadataFields[i]]

\* the registry configured without a field named tags
NoTagsFields == SelectSeq(MetadataFields, LAMBDA f : f.Name # "tags")

\* the registry with series read from game_data
DataSeriesFields ==
    [i \in 1..Len(MetadataFields) |->
        IF MetadataFields[i].Name = "series"
        THEN Field("series", "series",
                   "coalesce(game_data.series,game.series) AS series", TRUE, "string")
        ELSE MetadataFields[i]]

\* the registry whose title field reads game.title under another column name
RenamedTitleFields ==
    [i \in 1..Len(MetadataFields) |->
        IF MetadataFields[i].Name = "title"
        THEN Field("title", "gameTitle", "game.title AS gameTitle", FALSE, "string")
        ELSE MetadataFields[i]]

\* the configured registries the model starts with
Registries ==
    {MetadataFields, TitleFirstFields, NoTagsFields, DataSeriesFields,
     RenamedTitleFields}

\* main(), the loop over config.MetadataFields
BuildFieldIterator(fields) ==
    [Name       |-> [i \in 1..Len(fields) |-> fields[i].Name],
     ColumnName |-> [i \in 1..Len(fields) |-> fields[i].ColumnName],
     Query      |-> [i \in 1..Len(fields) |-> fields[i].Query],
     DataTable  |-> [i \in 1..Len(fields) |-> fields[i].DataTable],
     Type       |-> [i \in 1..Len(fields) |-> fields[i].Type]]

\* the configured ceilings the model starts with
SearchLimits == {-2, -1, 0, 2, 3}

FilteredTags == << <<"X">> >>

Configs == {[SearchLimit |-> c, FilteredTags |-> FilteredTags] : c \in SearchLimits}

-----------------------------------------------------------------------------
(* The predicate compiler, searchHandler up to the call of db.Query.       *)

\* queryReplacer without the rule for "_"
queryReplacerCharNoUnderscore(c) ==
    IF c = "^" THEN <<"^", "^">>
    ELSE IF c = "%" THEN <<"^", "%">>
    ELSE <<c>>

\* queryReplacer: each character is replaced on its own, in one pass
queryReplacerChar(c) ==
    IF c = "^" THEN <<"^", "^">>
    ELSE IF c = "%" THEN <<"^", "%">>
    ELSE IF c = "_" THEN <<"^", "_">>
    ELSE <<c>>

RECURSIVE queryReplacer(_)
queryReplacer(v) ==
    IF v = <<>> THEN <<>> ELSE queryReplacerChar(Head(v)) \o queryReplacer(Tail(v))

\* the bound argument of one sub-value or term
LikeArg(v) == <<"%">> \o queryReplacer(v) \o <<"%">>

\* LikePred with every placeholder numbered 1
LikePredFirstParam(column, param) ==
    [text   |-> column \o " LIKE $1 ESCAPE '^'",
     column |-> column, param |-> 1, escape |-> "^"]

\* one LIKE predicate: its text and what the database reads from it
LikePred(column, param) ==
    [text   |-> column \o " LIKE $" \o FormatInt(param) \o " ESCAPE '^'",
     column |-> column, param |-> param, escape |-> "^"]

PredTexts(preds) == [i \in 1..Len(preds) |-> preds[i].text]

\* one parenthesised group of predicates joined by op
Group(preds, op) ==
    [text |-> "(" \o Join(PredTexts(preds), op) \o ")", op |-> op, preds |-> preds]

Operator(q) ==
    IF ToLower(Get(q, "any")) = <<"t", "r", "u", "e">> THEN " OR " ELSE " AND "

\* the registry positions smart search reads ([]int{2, 3, 4, 5, 6}, 0-based)
SmartIndices == <<3, 4, 5, 6, 7>>

EmptyAcc == [whereLike |-> <<>>, whereVal |-> <<>>, outputQueries |-> <<>>, param |-> 1]

\* SmartTerm with the pattern written into the statement
SmartTermInterpolated(fi, acc, v) ==
    LET smartLike == [k \in 1..Len(SmartIndices) |->
                         [LikePred(fi.Name[SmartIndices[k]], acc.param) EXCEPT
                            !.text = fi.Name[SmartIndices[k]] \o " LIKE '"
                                       \o Str(LikeArg(v)) \o "' ESCAPE '^'"]]
        queries   == [k \in 1..Len(SmartIndices) |-> fi.Query[SmartIndices[k]]]
    IN [whereLike     |-> Append(acc.whereLike, Group(smartLike, " OR ")),
        whereVal      |-> Append(acc.whereVal, LikeArg(v)),
        outputQueries |-> acc.outputQueries \o queries,
        param         |-> acc.param + 1]

\* the body of the loop over the smart-search terms, for one term v
SmartTerm(fi, acc, v) ==
    LET smartLike == [k \in 1..Len(SmartIndices) |->
                         LikePred(fi.Name[SmartIndices[k]], acc.param)]
        queries   == [k \in 1..Len(SmartIndices) |-> fi.Query[SmartIndices[k]]]
    IN [whereLike     |-> Append(acc.whereLike, Group(smartLike, " OR ")),
        whereVal      |-> Append(acc.whereVal, LikeArg(v)),
        outputQueries |-> acc.outputQueries \o queries,
        param         |-> acc.param + 1]

RECURSIVE SmartLoop(_, _, _)
SmartLoop(fi, acc, terms) ==
    IF terms = <<>> THEN acc
    ELSE SmartLoop(fi, SmartTerm(fi, acc, Head(terms)), Tail(terms))

SmartSearch(fi, q, acc) ==
    IF Get(q, "smartSearch") # <<>>
    THEN SmartLoop(fi, acc, Split(Get(q, "smartSearch"), <<",">>))
    ELSE acc

\* a parameter filters when its value is not empty
FiltersOnPresence(q, c) == Has(q, c)

Filters(q, c) == Get(q, c) # <<>>

\* FieldFilter with the predicates of a field joined by " OR ", as the
\* smart-search groups are
FieldFilterOrGroup(fi, q, op, acc, i) ==
    IF Filters(q, fi.Name[i])
    THEN LET vals     == Split(Get(q, fi.Name[i]), <<",">>)
             metaLike == [k \in 1..Len(vals) |->
                             LikePred(fi.ColumnName[i], acc.param + k - 1)]
             args     == [k \in 1..Len(vals) |-> LikeArg(vals[k])]
         IN [whereLike     |-> Append(acc.whereLike, Group(metaLike, " OR ")),
             whereVal      |-> acc.whereVal \o args,
             outputQueries |-> IF Contains(acc.outputQueries, fi.Query[i])
                               THEN acc.outputQueries
                               ELSE Append(acc.outputQueries, fi.Query[i]),
             param         |-> acc.param + Len(vals)]
    ELSE acc

\* the body of the loop over the registry, for the field at position i
FieldFilter(fi, q, op, acc, i) ==
    IF Filters(q, fi.Name[i])
    THEN LET vals     == Split(Get(q, fi.Name[i]), <<",">>)
             metaLike == [k \in 1..Len(vals) |->
                             LikePred(fi.ColumnName[i], acc.param + k - 1)]
             args     == [k \in 1..Len(vals) |-> LikeArg(vals[k])]
         IN [whereLike     |-> Append(acc.whereLike, Group(metaLike, op)),
             whereVal      |-> acc.whereVal \o args,
             outputQueries |-> IF Contains(acc.outputQueries, fi.Query[i])
                               THEN acc.outputQueries
                               ELSE Append(acc.outputQueries, fi.Query[i]),
             param         |-> acc.param + Len(vals)]
    ELSE acc

RECURSIVE FieldLoop(_, _, _, _, _)
FieldLoop(fi, q, op, acc, i) ==
    IF i > Len(fi.Name) THEN acc
    ELSE FieldLoop(fi, q, op, FieldFilter(fi, q, op, acc, i), i + 1)

\* whereLike, whereVal and the first outputQueries of a request
Where(fi, q) == FieldLoop(fi, q, Operator(q), SmartSearch(fi, q, EmptyAcc), 1)

\* the lookup of `fields` with the requested names lower-cased
RequestedIndicesFolded(fi, q) ==
    LET names == Split(Get(q, "fields"), <<",">>)
        found == SelectSeq([k \in 1..Len(names) |->
                               SliceIndex(fi.Name, Str(ToLower(names[k])))],
                           LAMBDA i : i # 0)
    IN IF Has(q, "fields") THEN found ELSE <<>>

\* the registry positions named by `fields`, or every position
RequestedIndices(fi, q) ==
    LET names == Split(Get(q, "fields"), <<",">>)
        found == SelectSeq([k \in 1..Len(names) |-> SliceIndex(fi.Name, Str(names[k]))],
                           LAMBDA i : i # 0)
    IN IF Has(q, "fields") THEN found ELSE <<>>

ResolvedIndices(fi, q) ==
    IF Len(RequestedIndices(fi, q)) = 0
    THEN [i \in 1..Len(fi.Name) |-> i]
    ELSE RequestedIndices(fi, q)

\* OutputTags without the append: the tags are read from the last column
\* the request names
OutputTagsNotAppended(fi, ti, q) ==
    LET resolved == ResolvedIndices(fi, q)
        found    == SliceIndex(resolved, ti)
    IN IF found = 0
       THEN [outputIndices |-> resolved,
             outputTagsIndex |-> Len(resolved),
             outputTagsAppend |-> FALSE]
       ELSE [outputIndices |-> resolved,
             outputTagsIndex |-> found,
             outputTagsAppend |-> FALSE]

\* the tags column is appended when the resolved positions lack it
OutputTags(fi, ti, q) ==
    LET resolved == ResolvedIndices(fi, q)
        found    == SliceIndex(resolved, ti)
    IN IF found = 0
       THEN [outputIndices |-> Append(resolved, ti),
             outputTagsIndex |-> Len(resolved) + 1,
             outputTagsAppend |-> TRUE]
       ELSE [outputIndices |-> resolved,
             outputTagsIndex |-> found,
             outputTagsAppend |-> FALSE]

RECURSIVE AddQueries(_, _, _)
AddQueries(fi, queries, indices) ==
    IF indices = <<>> THEN queries
    ELSE AddQueries(fi,
                    IF Contains(queries, fi.Query[Head(indices)])
                    THEN queries
                    ELSE Append(queries, fi.Query[Head(indices)]),
                    Tail(indices))

\* the join the statement names when it reads game_data
JoinClause == " LEFT JOIN game_data ON game.id=game_data.gameId"

\* MergeText without the elision: the join is always written
MergeTextAlways(fi, queries) == JoinClause

MergeText(fi, queries) ==
    IF \E i \in 1..Len(fi.Query) : fi.DataTable[i] /\ Contains(queries, fi.Query[i])
    THEN JoinClause
    ELSE ""

\* the limit policy without the comparison against the ceiling
LimitUncapped(cfg, q) ==
    LET parsed == Atoi(Get(q, "limit"))
    IN IF Has(q, "limit") /\ ~parsed.err /\ parsed.i > 0
       THEN parsed.i
       ELSE cfg.SearchLimit

\* the limit policy
Limit(cfg, q) ==
    LET parsed == Atoi(Get(q, "limit"))
    IN IF /\ Has(q, "limit")
          /\ ~parsed.err
          /\ parsed.i > 0
          /\ (cfg.SearchLimit = -1 \/ parsed.i < cfg.SearchLimit)
       THEN parsed.i
       ELSE cfg.SearchLimit

GroupTexts(groups) == [i \in 1..Len(groups) |-> groups[i].text]

OutputColumns(fi, indices) == [k \in 1..Len(indices) |-> fi.ColumnName[indices[k]]]

\* the statement without its LIMIT clause
SelectText(columns, queries, merge, groups, op) ==
    "SELECT " \o Join(columns, ",") \o " FROM (SELECT " \o Join(queries, ",")
        \o " FROM game" \o merge \o ") WHERE " \o Join(GroupTexts(groups), op)

WithLimit(select, lim) ==
    IF lim > 0 THEN select \o " LIMIT " \o FormatInt(lim) ELSE select

\* the statement, given whereLike and whereVal (w), the output positions
\* (out) and the source expressions of the inner SELECT (queries)
Statement(fi, cfg, q, w, out, queries) ==
    [operator         |-> Operator(q),
     whereLike        |-> w.whereLike,
     whereVal         |-> w.whereVal,
     outputIndices    |-> out.outputIndices,
     outputTagsIndex  |-> out.outputTagsIndex,
     outputTagsAppend |-> out.outputTagsAppend,
     outputColumns    |-> OutputColumns(fi, out.outputIndices),
     outputQueries    |-> queries,
     mergeText        |-> MergeText(fi, queries),
     limit            |-> Limit(cfg, q),
     dbQuery          |-> WithLimit(SelectText(OutputColumns(fi, out.outputIndices),
                                               queries, MergeText(fi, queries),
                                               w.whereLike, Operator(q)),
                                    Limit(cfg, q))]

CompileOutput(fi, cfg, q, w, out) ==
    Statement(fi, cfg, q, w, out, AddQueries(fi, w.outputQueries, out.outputIndices))

\* everything searchHandler computes before it calls db.Query
Compile(fi, ti, cfg, q) ==
    CompileOutput(fi, cfg, q, Where(fi, q), OutputTags(fi, ti, q))

-----------------------------------------------------------------------------
(* The database: the rows of table game, and how the engine answers the    *)
(* compiled statement (LIKE with an escape character, WHERE, LIMIT).  The  *)
(* engine is not part of the program; what is modelled is the meaning of   *)
(* the SQL the handler writes.  Characters are compared exactly.           *)

cTrue == <<"t", "r", "u", "e">>
cFalse == <<"f", "a", "l", "s", "e">>

Game(title, tagsStr) ==
    [title |-> title, tagsStr |-> tagsStr, platform |-> <<"F">>,
     activeDataOnDisk |-> cTrue]

Table ==
    << Game(<<"a", "%">>,      <<"a", ";", " ", "B">>),
       Game(<<"a", "b">>,      <<"X", ";", " ", "a">>),
       Game(<<"a", "_", "b">>, <<>>),
       Game(<<"^">>,           <<"b">>),
       Game(<<"b">>,           <<"x", ";", " ", "A", ";", " ", "b">>),
       [Game(<<"\"", "<">>,    <<"\"", ";", " ", "\\", ";", " ", "&">>)
           EXCEPT !.activeDataOnDisk = cFalse] >>

\* the rows of table game_data: the game each belongs to and its
\* applicationPath; a game has none, one or several
GameData ==
    << [gameId |-> 2, applicationPath |-> <<"p">>],
       [gameId |-> 5, applicationPath |-> <<"p">>],
       [gameId |-> 5, applicationPath |-> <<"q">>] >>

\* a row of the inner SELECT: a row of game, with the row of game_data
\* joined to it (0 when none is)
JoinedRow(game, data) == [game |-> game, data |-> data]

\* the value of a column of a row; applicationPath is
\* coalesce(game_data.applicationPath, game.applicationPath), gameTitle is
\* game.title; columns the table above leaves out hold "v"
Cell(row, column) ==
    IF column = "applicationPath" /\ row.data # 0
    THEN GameData[row.data].applicationPath
    ELSE IF column = "gameTitle" THEN Table[row.game]["title"]
    ELSE IF column \in DOMAIN Table[row.game] THEN Table[row.game][column]
    ELSE <<"v">>

\* s LIKE p ESCAPE esc
RECURSIVE Like(_, _, _)
Like(p, s, esc) ==
    IF p = <<>> THEN s = <<>>
    ELSE IF Head(p) = esc
         THEN /\ Len(p) >= 2
              /\ s # <<>>
              /\ Head(s) = p[2]
              /\ Like(Tail(Tail(p)), Tail(s), esc)
    ELSE IF Head(p) = "%"
         THEN \/ Like(Tail(p), s, esc)
              \/ (s # <<>> /\ Like(p, Tail(s), esc))
    ELSE IF Head(p) = "_"
         THEN s # <<>> /\ Like(Tail(p), Tail(s), esc)
    ELSE s # <<>> /\ Head(s) = Head(p) /\ Like(Tail(p), Tail(s), esc)

\* the column names the inner SELECT produces: the registry pairs each
\* source expression with the name of the column it yields
InnerColumns(fi, queries) ==
    {fi.ColumnName[i] : i \in {j \in 1..Len(fi.Query) : Contains(queries, fi.Query[j])}}

\* the statement prepares: every column it names exists, every placeholder
\* has an argument, and game_data is named only when it is joined
Prepares(fi, groups, columns, queries, args, merge) ==
    /\ \A k \in 1..Len(columns) : columns[k] \in InnerColumns(fi, queries)
    /\ \A g \in 1..Len(groups) : \A k \in 1..Len(groups[g].preds) :
          /\ groups[g].preds[k].column \in InnerColumns(fi, queries)
          /\ groups[g].preds[k].param \in 1..Len(args)
    /\ \A i \in 1..Len(fi.Query) :
          fi.DataTable[i] /\ Contains(queries, fi.Query[i]) => merge # ""

EvalPred(pred, args, row) == Like(args[pred.param], Cell(row, pred.column), pred.escape)

EvalGroup(group, args, row) ==
    IF group.op = " OR "
    THEN \E k \in 1..Len(group.preds) : EvalPred(group.preds[k], args, row)
    ELSE \A k \in 1..Len(group.preds) : EvalPred(group.preds[k], args, row)

EvalWhere(groups, op, args, row) ==
    IF op = " OR "
    THEN \E g \in 1..Len(groups) : EvalGroup(groups[g], args, row)
    ELSE \A g \in 1..Len(groups) : EvalGroup(groups[g], args, row)

\* the rows of game_data whose gameId is game, in table order
DataOf(game) ==
    SelectSeq([d \in 1..Len(GameData) |-> d], LAMBDA d : GameData[d].gameId = game)

\* what FROM game<merge> yields for one row of game: the row itself without
\* a join; with LEFT JOIN one row for each of its rows of game_data, or one
\* with no data when it has none; with any other join only the former
FromGame(game, merge) ==
    IF merge = "" THEN <<JoinedRow(game, 0)>>
    ELSE IF DataOf(game) = <<>>
         THEN IF merge = " LEFT JOIN game_data ON game.id=game_data.gameId"
              THEN <<JoinedRow(game, 0)>>
              ELSE <<>>
    ELSE [k \in 1..Len(DataOf(game)) |-> JoinedRow(game, DataOf(game)[k])]

RECURSIVE From(_, _)
From(game, merge) ==
    IF game > Len(Table) THEN <<>>
    ELSE FromGame(game, merge) \o From(game + 1, merge)

\* the rows the cursor delivers, in table order, cut at LIMIT lim when lim > 0
Cursor(groups, op, args, lim, merge) ==
    LET hits == SelectSeq(From(1, merge),
                          LAMBDA row : EvalWhere(groups, op, args, row))
    IN IF lim > 0 /\ lim < Len(hits) THEN SubSeq(hits, 1, lim) ELSE hits

----------
(* The result projector: the body of the loop over rows.Next().            *)

\* rows.Scan into entry
Scan(columns, row) == [k \in 1..Len(columns) |-> Cell(row, columns[k])]

RowTags(entry, tagsAt) == Split(entry[tagsAt], <<";", " ">>)

\* the blocklist loop with `filter` compared as written
BlocklistedExactFlag(cfg, q, tags) ==
    /\ Get(q, "filter") = cTrue
    /\ \E k \in 1..Len(tags) : Contains(cfg.FilteredTags, tags[k])

\* the blocklist loop
Blocklisted(cfg, q, tags) ==
    /\ ToLower(Get(q, "filter")) = cTrue
    /\ \E k \in 1..Len(tags) : Contains(cfg.FilteredTags, tags[k])

\* tagsLower := make([]string, len(tags)), then one append per tag
TagsLower(tags) ==
    [k \in 1..Len(tags) |-> <<>>] \o [k \in 1..Len(tags) |-> ToLower(tags[k])]

\* the loop over queryTags: TRUE when it sets filtered
RECURSIVE TagLoop(_, _, _)
TagLoop(queryTags, tagsLower, op) ==
    IF queryTags = <<>> THEN FALSE
    ELSE LET containsTag == Contains(tagsLower, ToLower(Head(queryTags)))
         IN IF op = " AND " /\ ~containsTag THEN TRUE
            ELSE IF op = " OR " /\ containsTag THEN FALSE
            ELSE TagLoop(Tail(queryTags), tagsLower, op)

Filtered(cfg, q, op, tags) ==
    \/ Blocklisted(cfg, q, tags)
    \/ /\ Has(q, "tagsStr")
       /\ TagLoop(Split(Get(q, "tagsStr"), <<",">>), TagsLower(tags), op)

\* json.Marshal without any escaping
JsonCharRaw(c) == <<c>>

\* json.Marshal of a string; it escapes the quote, the backslash and, as
\* \u00XX, the characters <, > and &
JsonChar(c) ==
    IF c = "\"" THEN <<"\\", "\"">>
    ELSE IF c = "\\" THEN <<"\\", "\\">>
    ELSE IF c = "<" THEN <<"\\", "u", "0", "0", "3", "c">>
    ELSE IF c = ">" THEN <<"\\", "u", "0", "0", "3", "e">>
    ELSE IF c = "&" THEN <<"\\", "u", "0", "0", "2", "6">>
    ELSE <<c>>

RECURSIVE JsonChars(_)
JsonChars(v) == IF v = <<>> THEN <<>> ELSE JsonChar(Head(v)) \o JsonChars(Tail(v))

JsonMarshal(v) == <<"\"">> \o JsonChars(v) \o <<"\"">>

ReplaceAll(s, old, new) == JoinSeq(Split(s, old), new)

RECURSIVE TrimLeft(_, _)
TrimLeft(s, c) == IF s # <<>> /\ Head(s) = c THEN TrimLeft(Tail(s), c) ELSE s

RECURSIVE TrimRight(_, _)
TrimRight(s, c) ==
    IF s # <<>> /\ s[Len(s)] = c THEN TrimRight(SubSeq(s, 1, Len(s) - 1), c) ELSE s

Trim(s, c) == TrimRight(TrimLeft(s, c), c)

\* the switch on the type of the field
JsonValue(type, v) ==
    IF type = "array"
    THEN <<"[">> \o ReplaceAll(JsonMarshal(v), <<";", " ">>, <<"\"", ",", "\"">>) \o <<"]">>
    ELSE IF type = "bool" THEN Trim(JsonMarshal(v), "\"")
    ELSE JsonMarshal(v)

\* the object written for an entry: its members in order, each a key and
\* the text of its value
JsonObject(fi, indices, entry) ==
    [k \in 1..Len(entry) |->
        [key   |-> fi.Name[indices[k]],
         value |-> JsonValue(fi.Type[indices[k]], entry[k])]]

\* the entry serialised as scanned
EmittedAsScanned(entry, tagsAppend) == entry

\* the entry that is serialised: without its last value when the tags
\* column was appended
Emitted(entry, tagsAppend) ==
    IF tagsAppend THEN SubSeq(entry, 1, Len(entry) - 1) ELSE entry

-----------------------------------------------------------------------------
(* The requests the model sends.                                            *)

NoParams == [k \in {} |-> <<>>]

cTitle    == <<"t", "i", "t", "l", "e">>
cPlatform == <<"p", "l", "a", "t", "f", "o", "r", "m">>
cTags     == <<"t", "a", "g", "s">>
cZipped   == <<"z", "i", "p", "p", "e", "d">>
cNope     == <<"n", "o", "p", "e">>
cApplicationPath ==
    <<"a", "p", "p", "l", "i", "c", "a", "t", "i", "o", "n", "P", "a", "t", "h">>

ValChars == {"a", "%", "_", "^"}

\* the filter sub-values and smart-search terms
ValStrs == UNION {[1..n -> ValChars] : n \in 0..MaxValLen}

\* the column values the LIKE claims range over
ColStrs == UNION {[1..n -> ValChars] : n \in 0..MaxColLen}

\* a filter every row of Table passes
Base == "platform" :> <<"F">>

AnyParams ==
    {NoParams, "any" :> cTrue, "any" :> <<"T", "R", "U", "E">>, "any" :> <<"1">>}

FilterParams ==
    {NoParams, "filter" :> cTrue, "filter" :> <<"T", "r", "u", "e">>, "filter" :> <<"1">>}

TagLists ==
    { <<>>, <<"a">>, <<"A">>, <<"a", ",", "b">>, <<"B", ",", "a">>, <<"a", ",">>,
      <<"q">>, <<"x">>, <<"q", ",", "a">>, <<"q", ",", "z">> }

TagsStrParams == {NoParams} \cup {"tagsStr" :> t : t \in TagLists}

FieldLists ==
    { <<>>, cTitle, cTitle \o <<",">> \o cPlatform, cPlatform \o <<",">> \o cTitle,
      cTags, cTags \o <<",">> \o cTitle, cTitle \o <<",">> \o cTags, cNope,
      cTitle \o <<",">> \o cNope, cNope \o <<",">> \o cTitle,
      <<"T", "i", "t", "l", "e">>, cZipped, cTitle \o <<",">>,
      cTitle \o <<",">> \o cTitle }

FieldsParams == {NoParams} \cup {"fields" :> f : f \in FieldLists}

LimitTexts ==
    { <<>>, <<"0">>, <<"1">>, <<"2">>, <<"3">>, <<"4">>, <<"5">>, <<"1", "0">>,
      <<"-", "1">>, <<"+", "1">>, <<"x">>, <<"2", "x">>, <<" ", "2">> }

LimitParams == {NoParams} \cup {"limit" :> l : l \in LimitTexts}

\* requests without any filter
NoFilterReqs ==
    {b @@ x : b \in {NoParams, "title" :> <<>>, "smartSearch" :> <<>>},
              x \in {NoParams, "fields" :> cTitle, "limit" :> <<"2">>,
                     "filter" :> cTrue, "any" :> cTrue, "tagsStr" :> <<"a">>}}

\* requests that vary the filter values
ValueFilters ==
    {"title" :> v : v \in ValStrs}
    \cup {"smartSearch" :> v : v \in ValStrs}
    \cup {"title" :> <<v, ",", w>> : v \in ValChars, w \in ValChars}
    \cup {"smartSearch" :> <<v, ",", w>> : v \in {"a", "%"}, w \in {"a", "_"}}
    \cup {("title" :> <<v>>) @@ ("tags" :> <<w>>) : v \in ValChars, w \in {"a", "b"}}
    \cup {("smartSearch" :> <<v>>) @@ ("title" :> <<w>>) : v \in ValChars, w \in {"a", "b"}}
    \cup {"title" :> <<",">>, "title" :> <<"a", ",">>, "smartSearch" :> <<",">>}

ValueReqs == {m @@ f : m \in {NoParams, "any" :> cTrue}, f \in ValueFilters}

\* requests that vary the tag post-filter
TagReqs == {Base @@ a @@ f @@ t : a \in AnyParams, f \in FilterParams, t \in TagsStrParams}

\* requests that vary the output fields
FieldsReqs ==
    {Base @@ f @@ t : f \in FieldsParams,
                      t \in {NoParams, "tagsStr" :> <<"a">>, "filter" :> cTrue}}

\* requests that vary the limit
LimitReqs == {Base @@ l : l \in LimitParams}

\* requests that need the join: applicationPath is read from game_data
JoinReqs ==
    {f @@ o : f \in {Base, "applicationPath" :> <<"p">>, "applicationPath" :> <<"v">>},
              o \in {NoParams, "fields" :> cTitle, "fields" :> cApplicationPath,
                     ("fields" :> cTitle) @@ ("limit" :> <<"1">>)}}

Requests ==
    NoFilterReqs \cup ValueReqs \cup TagReqs \cup FieldsReqs \cup LimitReqs \cup JoinReqs

\* the requests sent to the registries other than MetadataFields
FewRequests ==
    { NoParams, Base, Base @@ ("fields" :> cTitle), Base @@ ("tagsStr" :> <<"a">>),
      "title" :> <<"a">>, "smartSearch" :> <<"a">>, "smartSearch" :> <<"%">>,
      ("any" :> cTrue) @@ ("smartSearch" :> <<"a", ",", "_">>),
      "smartSearch" :> <<"a", ",", "a">>,
      ("smartSearch" :> <<"a">>) @@ ("title" :> <<"b">>),
      ("any" :> cTrue) @@ ("smartSearch" :> <<"a">>) @@ ("title" :> <<"b">>) }

RequestsFor(fi) ==
    IF fi = BuildFieldIterator(MetadataFields) THEN Requests ELSE FewRequests

-----------------------------------------------------------------------------
(* The state machine.                                                       *)

StatusOK == 200
StatusInternalServerError == 500

\* the handler's variables before a request is received
Idle ==
    /\ pc = "idle"
    /\ urlQuery = NoParams
    /\ operator = " AND "
    /\ whereLike = <<>>
    /\ whereVal = <<>>
    /\ outputQueries = <<>>
    /\ outputIndices = <<>>
    /\ outputColumns = <<>>
    /\ outputTagsIndex = 0
    /\ outputTagsAppend = FALSE
    /\ mergeText = ""
    /\ limit = 0
    /\ dbQuery = ""
    /\ rows = <<>>
    /\ rowIdx = 0
    /\ jsonObjects = <<>>
    /\ status = StatusOK
    /\ body = <<>>
    /\ nQueries = 0
    /\ iStats = 0
    /\ stats = <<>>

Init ==
    /\ \E fields \in Registries :
          /\ fieldIterator = BuildFieldIterator(fields)
          /\ tagsIndex = SliceIndex(BuildFieldIterator(fields).Name, "tags")
    /\ config \in Configs
    /\ Idle

\* Receive answering a limit that does not parse with 400 Bad Request
ReceiveRejectsBadLimit(q) ==
    /\ pc = "idle"
    /\ IF Has(q, "limit") /\ Atoi(Get(q, "limit")).err
       THEN /\ urlQuery' = q
            /\ status' = 400
            /\ pc' = "done"
            /\ UNCHANGED <<iStats, stats, fieldIterator, tagsIndex, config, operator, whereLike,
                           whereVal, outputQueries, outputIndices, outputColumns,
                           outputTagsIndex, outputTagsAppend, mergeText, limit,
                           dbQuery, rows, rowIdx, jsonObjects, body, nQueries>>
       ELSE
           /\ urlQuery' = q
           /\ operator' = Operator(q)
           /\ \E w \in {Where(fieldIterator, q)} :
                 /\ whereLike' = w.whereLike
                 /\ whereVal' = w.whereVal
                 /\ IF Len(w.whereVal) > 0 /\ tagsIndex = 0
                    THEN /\ outputQueries' = w.outputQueries
                         /\ pc' = "panic"
                         /\ UNCHANGED <<outputIndices, outputColumns, outputTagsIndex,
                                        outputTagsAppend, mergeText, limit, dbQuery, body>>
                    ELSE IF Len(w.whereVal) > 0
                    THEN \E c \in {Compile(fieldIterator, tagsIndex, config, q)} :
                            /\ outputQueries' = c.outputQueries
                            /\ outputIndices' = c.outputIndices
                            /\ outputColumns' = c.outputColumns
                            /\ outputTagsIndex' = c.outputTagsIndex
                            /\ outputTagsAppend' = c.outputTagsAppend
                            /\ mergeText' = c.mergeText
                            /\ limit' = c.limit
                            /\ dbQuery' = c.dbQuery
                            /\ pc' = "query"
                            /\ body' = body
                    ELSE /\ outputQueries' = w.outputQueries
                         /\ pc' = "done"
                         /\ body' = Append(body, jsonObjects)
                         /\ UNCHANGED <<outputIndices, outputColumns, outputTagsIndex,
                                        outputTagsAppend, mergeText, limit, dbQuery>>
           /\ UNCHANGED <<iStats, stats, fieldIterator, tagsIndex, config, rows, rowIdx, jsonObjects,
                          status, nQueries>>

\* Receive with the resolved limit stored in config.SearchLimit
ReceiveStoresLimit(q) ==
    /\ pc = "idle"
    /\ urlQuery' = q
    /\ operator' = Operator(q)
    /\ \E w \in {Where(fieldIterator, q)} :
          /\ whereLike' = w.whereLike
          /\ whereVal' = w.whereVal
          /\ IF Len(w.whereVal) > 0 /\ tagsIndex = 0
             THEN /\ outputQueries' = w.outputQueries
                  /\ pc' = "panic"
                  /\ UNCHANGED <<outputIndices, outputColumns, outputTagsIndex,
                                 outputTagsAppend, mergeText, limit, dbQuery, body>>
             ELSE IF Len(w.whereVal) > 0
             THEN \E c \in {Compile(fieldIterator, tagsIndex, config, q)} :
                     /\ outputQueries' = c.outputQueries
                     /\ outputIndices' = c.outputIndices
                     /\ outputColumns' = c.outputColumns
                     /\ outputTagsIndex' = c.outputTagsIndex
                     /\ outputTagsAppend' = c.outputTagsAppend
                     /\ mergeText' = c.mergeText
                     /\ limit' = c.limit
                     /\ dbQuery' = c.dbQuery
                     /\ pc' = "query"
                     /\ body' = body
             ELSE /\ outputQueries' = w.outputQueries
                  /\ pc' = "done"
                  /\ body' = Append(body, jsonObjects)
                  /\ UNCHANGED <<outputIndices, outputColumns, outputTagsIndex,
                                 outputTagsAppend, mergeText, limit, dbQuery>>
    /\ config' = [config EXCEPT !.SearchLimit = Limit(config, q)]
    /\ UNCHANGED <<iStats, stats, fieldIterator, tagsIndex, rows, rowIdx, jsonObjects,
                   status, nQueries>>

\* searchHandler from its entry to the call of db.Query, or to the write of
\* the response when there is nothing to query.  When no field is named
\* tags, tagsIndex is -1 (0 here): it is appended to outputIndices and
\* fieldIterator.ColumnName[-1] panics.
Receive(q) ==
    /\ pc = "idle"
    /\ urlQuery' = q
    /\ operator' = Operator(q)
    /\ \E w \in {Where(fieldIterator, q)} :
          /\ whereLike' = w.whereLike
          /\ whereVal' = w.whereVal
          /\ IF Len(w.whereVal) > 0 /\ tagsIndex = 0
             THEN /\ outputQueries' = w.outputQueries
                  /\ pc' = "panic"
                  /\ UNCHANGED <<outputIndices, outputColumns, outputTagsIndex,
                                 outputTagsAppend, mergeText, limit, dbQuery, body>>
             ELSE IF Len(w.whereVal) > 0
             THEN \E c \in {Compile(fieldIterator, tagsIndex, config, q)} :
                     /\ outputQueries' = c.outputQueries
                     /\ outputIndices' = c.outputIndices
                     /\ outputColumns' = c.outputColumns
                     /\ outputTagsIndex' = c.outputTagsIndex
                     /\ outputTagsAppend' = c.outputTagsAppend
                     /\ mergeText' = c.mergeText
                     /\ limit' = c.limit
                     /\ dbQuery' = c.dbQuery
                     /\ pc' = "query"
                     /\ body' = body
             ELSE /\ outputQueries' = w.outputQueries
                  /\ pc' = "done"
                  /\ body' = Append(body, jsonObjects)
                  /\ UNCHANGED <<outputIndices, outputColumns, outputTagsIndex,
                                 outputTagsAppend, mergeText, limit, dbQuery>>
    /\ UNCHANGED <<iStats, stats, fieldIterator, tagsIndex, config, rows, rowIdx, jsonObjects,
                   status, nQueries>>

\* db.Query returns a cursor, or the engine rejects the statement
ExecQuery ==
    /\ pc = "query"
    /\ nQueries' = nQueries + 1
    /\ IF Prepares(fieldIterator, whereLike, outputColumns, outputQueries, whereVal,
                   mergeText)
       THEN /\ rows' = Cursor(whereLike, operator, whereVal, limit, mergeText)
            /\ pc' = "rows"
            /\ status' = status
       ELSE /\ rows' = rows
            /\ pc' = "done"
            /\ status' = StatusInternalServerError
    /\ UNCHANGED <<iStats, stats, fieldIterator, tagsIndex, config, urlQuery, operator, whereLike,
                   whereVal, outputQueries, outputIndices, outputColumns,
                   outputTagsIndex, outputTagsAppend, mergeText, limit, dbQuery,
                   rowIdx, jsonObjects, body>>

\* QueryFail without the return: the handler goes on to write the response
QueryFailWritesBody ==
    /\ pc = "query"
    /\ nQueries' = nQueries + 1
    /\ status' = StatusInternalServerError
    /\ pc' = "done"
    /\ body' = Append(body, jsonObjects)
    /\ UNCHANGED <<iStats, stats, fieldIterator, tagsIndex, config, urlQuery, operator, whereLike,
                   whereVal, outputQueries, outputIndices, outputColumns,
                   outputTagsIndex, outputTagsAppend, mergeText, limit, dbQuery,
                   rows, rowIdx, jsonObjects>>

\* db.Query fails in the driver
QueryFail ==
    /\ pc = "query"
    /\ nQueries' = nQueries + 1
    /\ status' = StatusInternalServerError
    /\ pc' = "done"
    /\ UNCHANGED <<iStats, stats, fieldIterator, tagsIndex, config, urlQuery, operator, whereLike,
                   whereVal, outputQueries, outputIndices, outputColumns,
                   outputTagsIndex, outputTagsAppend, mergeText, limit, dbQuery,
                   rows, rowIdx, jsonObjects, body>>

\* ScanRow with the new object put in front of the collected ones
ScanRowPrepends ==
    /\ pc = "rows"
    /\ rowIdx < Len(rows)
    /\ rowIdx' = rowIdx + 1
    /\ LET entry == Scan(outputColumns, rows[rowIdx + 1])
           tags  == RowTags(entry, outputTagsIndex)
       IN jsonObjects' =
             IF Filtered(config, urlQuery, operator, tags)
             THEN jsonObjects
             ELSE <<JsonObject(fieldIterator, outputIndices,
                               Emitted(entry, outputTagsAppend))>> \o jsonObjects
    /\ UNCHANGED <<iStats, stats, fieldIterator, tagsIndex, config, pc, urlQuery, operator,
                   whereLike, whereVal, outputQueries, outputIndices,
                   outputColumns, outputTagsIndex, outputTagsAppend, mergeText,
                   limit, dbQuery, rows, status, body, nQueries>>

\* one pass of the loop over rows.Next() whose Scan succeeds
ScanRow ==
    /\ pc = "rows"
    /\ rowIdx < Len(rows)
    /\ rowIdx' = rowIdx + 1
    /\ LET entry == Scan(outputColumns, rows[rowIdx + 1])
           tags  == RowTags(entry, outputTagsIndex)
       IN jsonObjects' =
             IF Filtered(config, urlQuery, operator, tags)
             THEN jsonObjects
             ELSE Append(jsonObjects,
                         JsonObject(fieldIterator, outputIndices,
                                    Emitted(entry, outputTagsAppend)))
    /\ UNCHANGED <<iStats, stats, fieldIterator, tagsIndex, config, pc, urlQuery, operator,
                   whereLike, whereVal, outputQueries, outputIndices,
                   outputColumns, outputTagsIndex, outputTagsAppend, mergeText,
                   limit, dbQuery, rows, status, body, nQueries>>

\* ScanFail with continue in place of break: the loop goes on to the next row
ScanFailContinues ==
    /\ pc = "rows"
    /\ rowIdx < Len(rows)
    /\ rowIdx' = rowIdx + 1
    /\ UNCHANGED <<iStats, stats, fieldIterator, tagsIndex, config, pc, urlQuery, operator,
                   whereLike, whereVal, outputQueries, outputIndices,
                   outputColumns, outputTagsIndex, outputTagsAppend, mergeText,
                   limit, dbQuery, rows, jsonObjects, status, body, nQueries>>

\* Scan fails: the loop breaks and the response is written
ScanFail ==
    /\ pc = "rows"
    /\ rowIdx < Len(rows)
    /\ rowIdx' = rowIdx + 1
    /\ body' = Append(body, jsonObjects)
    /\ pc' = "done"
    /\ UNCHANGED <<iStats, stats, fieldIterator, tagsIndex, config, urlQuery, operator, whereLike,
                   whereVal, outputQueries, outputIndices, outputColumns,
                   outputTagsIndex, outputTagsAppend, mergeText, limit, dbQuery,
                   rows, jsonObjects, status, nQueries>>

\* rows.Next() reports the end of the cursor: the response is written
Finish ==
    /\ pc = "rows"
    /\ rowIdx = Len(rows)
    /\ body' = Append(body, jsonObjects)
    /\ pc' = "done"
    /\ UNCHANGED <<iStats, stats, fieldIterator, tagsIndex, config, urlQuery, operator, whereLike,
                   whereVal, outputQueries, outputIndices, outputColumns,
                   outputTagsIndex, outputTagsAppend, mergeText, limit, dbQuery,
                   rows, rowIdx, jsonObjects, status, nQueries>>

\* the handler returns, or the server recovers its panic and closes the
\* connection; its locals are gone and the next request can come
Return ==
    /\ pc \in {"done", "panic"}
    /\ pc' = "idle"
    /\ urlQuery' = NoParams
    /\ operator' = " AND "
    /\ whereLike' = <<>>
    /\ whereVal' = <<>>
    /\ outputQueries' = <<>>
    /\ outputIndices' = <<>>
    /\ outputColumns' = <<>>
    /\ outputTagsIndex' = 0
    /\ outputTagsAppend' = FALSE
    /\ mergeText' = ""
    /\ limit' = 0
    /\ dbQuery' = ""
    /\ rows' = <<>>
    /\ rowIdx' = 0
    /\ jsonObjects' = <<>>
    /\ status' = StatusOK
    /\ body' = <<>>
    /\ nQueries' = 0
    /\ UNCHANGED <<iStats, stats, fieldIterator, tagsIndex, config>>

Next ==
    \/ \E q \in RequestsFor(fieldIterator) : Receive(q)
    \/ ExecQuery
    \/ QueryFail
    \/ ScanRow
    \/ ScanFail
    \/ Finish
    \/ Return

Spec == Init /\ [][Next]_vars

-----------------------------------------------------------------------------
(* Two search requests handled at the same time.  The server runs each      *)
(* call of searchHandler in a goroutine of its own; the locals of the call  *)
(* are then one value for each handler, and the variables that hold them    *)
(* are functions of the handler.  The registry, tagsIndex and config are    *)
(* the package-level variables both calls read.  The database contents are  *)
(* fixed and the database answers every statement.                          *)

Handlers == {1, 2}

\* the requests the two handlers receive
ConcRequests ==
    { NoParams,
      "title" :> <<"a">>,
      ("title" :> <<"a">>) @@ ("tagsStr" :> <<"a">>) @@ ("fields" :> cTitle),
      Base @@ ("limit" :> <<"2">>),
      ("any" :> cTrue) @@ ("smartSearch" :> <<"%">>) @@ ("tags" :> <<"b">>) }

ConcInit ==
    /\ fieldIterator = BuildFieldIterator(MetadataFields)
    /\ tagsIndex = SliceIndex(BuildFieldIterator(MetadataFields).Name, "tags")
    /\ config \in {c \in Configs : c.SearchLimit \in {-1, 3}}
    /\ pc = [h \in Handlers |-> "idle"]
    /\ urlQuery = [h \in Handlers |-> NoParams]
    /\ operator = [h \in Handlers |-> " AND "]
    /\ whereLike = [h \in Handlers |-> <<>>]
    /\ whereVal = [h \in Handlers |-> <<>>]
    /\ outputQueries = [h \in Handlers |-> <<>>]
    /\ outputIndices = [h \in Handlers |-> <<>>]
    /\ outputColumns = [h \in Handlers |-> <<>>]
    /\ outputTagsIndex = [h \in Handlers |-> 0]
    /\ outputTagsAppend = [h \in Handlers |-> FALSE]
    /\ mergeText = [h \in Handlers |-> ""]
    /\ limit = [h \in Handlers |-> 0]
    /\ dbQuery = [h \in Handlers |-> ""]
    /\ rows = [h \in Handlers |-> <<>>]
    /\ rowIdx = [h \in Handlers |-> 0]
    /\ jsonObjects = [h \in Handlers |-> <<>>]
    /\ status = [h \in Handlers |-> StatusOK]
    /\ body = [h \in Handlers |-> <<>>]
    /\ nQueries = [h \in Handlers |-> 0]
    /\ iStats = 0
    /\ stats = <<>>

\* ConcReceive with whereVal a package-level variable: the arguments of the
\* request replace those of the request the other handler is busy with
ConcReceiveSharedArgs(h, q) ==
    /\ pc[h] = "idle"
    /\ urlQuery' = [urlQuery EXCEPT ![h] = q]
    /\ operator' = [operator EXCEPT ![h] = Operator(q)]
    /\ \E w \in {Where(fieldIterator, q)} :
          /\ whereLike' = [whereLike EXCEPT ![h] = w.whereLike]
          /\ whereVal' = [g \in Handlers |-> w.whereVal]
          /\ IF Len(w.whereVal) > 0
             THEN \E c \in {Compile(fieldIterator, tagsIndex, config, q)} :
                     /\ outputQueries' = [outputQueries EXCEPT ![h] = c.outputQueries]
                     /\ outputIndices' = [outputIndices EXCEPT ![h] = c.outputIndices]
                     /\ outputColumns' = [outputColumns EXCEPT ![h] = c.outputColumns]
                     /\ outputTagsIndex' = [outputTagsIndex EXCEPT ![h] = c.outputTagsIndex]
                     /\ outputTagsAppend' = [outputTagsAppend EXCEPT ![h] = c.outputTagsAppend]
                     /\ mergeText' = [mergeText EXCEPT ![h] = c.mergeText]
                     /\ limit' = [limit EXCEPT ![h] = c.limit]
                     /\ dbQuery' = [dbQuery EXCEPT ![h] = c.dbQuery]
                     /\ pc' = [pc EXCEPT ![h] = "query"]
                     /\ body' = body
             ELSE /\ outputQueries' = [outputQueries EXCEPT ![h] = w.outputQueries]
                  /\ pc' = [pc EXCEPT ![h] = "done"]
                  /\ body' = [body EXCEPT ![h] = Append(body[h], jsonObjects[h])]
                  /\ UNCHANGED <<outputIndices, outputColumns, outputTagsIndex,
                                 outputTagsAppend, mergeText, limit, dbQuery>>
    /\ UNCHANGED <<iStats, stats, fieldIterator, tagsIndex, config, rows, rowIdx,
                   jsonObjects, status, nQueries>>

\* handler h: searchHandler from its entry to the call of db.Query, or to the
\* write of the response when there is nothing to query
ConcReceive(h, q) ==
    /\ pc[h] = "idle"
    /\ urlQuery' = [urlQuery EXCEPT ![h] = q]
    /\ operator' = [operator EXCEPT ![h] = Operator(q)]
    /\ \E w \in {Where(fieldIterator, q)} :
          /\ whereLike' = [whereLike EXCEPT ![h] = w.whereLike]
          /\ whereVal' = [whereVal EXCEPT ![h] = w.whereVal]
          /\ IF Len(w.whereVal) > 0
             THEN \E c \in {Compile(fieldIterator, tagsIndex, config, q)} :
                     /\ outputQueries' = [outputQueries EXCEPT ![h] = c.outputQueries]
                     /\ outputIndices' = [outputIndices EXCEPT ![h] = c.outputIndices]
                     /\ outputColumns' = [outputColumns EXCEPT ![h] = c.outputColumns]
                     /\ outputTagsIndex' = [outputTagsIndex EXCEPT ![h] = c.outputTagsIndex]
                     /\ outputTagsAppend' = [outputTagsAppend EXCEPT ![h] = c.outputTagsAppend]
                     /\ mergeText' = [mergeText EXCEPT ![h] = c.mergeText]
                     /\ limit' = [limit EXCEPT ![h] = c.limit]
                     /\ dbQuery' = [dbQuery EXCEPT ![h] = c.dbQuery]
                     /\ pc' = [pc EXCEPT ![h] = "query"]
                     /\ body' = body
             ELSE /\ outputQueries' = [outputQueries EXCEPT ![h] = w.outputQueries]
                  /\ pc' = [pc EXCEPT ![h] = "done"]
                  /\ body' = [body EXCEPT ![h] = Append(body[h], jsonObjects[h])]
                  /\ UNCHANGED <<outputIndices, outputColumns, outputTagsIndex,
                                 outputTagsAppend, mergeText, limit, dbQuery>>
    /\ UNCHANGED <<iStats, stats, fieldIterator, tagsIndex, config, rows, rowIdx,
                   jsonObjects, status, nQueries>>

\* handler h: db.Query returns a cursor
ConcExecQuery(h) ==
    /\ pc[h] = "query"
    /\ nQueries' = [nQueries EXCEPT ![h] = nQueries[h] + 1]
    /\ rows' = [rows EXCEPT ![h] =
                   Cursor(whereLike[h], operator[h], whereVal[h], limit[h], mergeText[h])]
    /\ pc' = [pc EXCEPT ![h] = "rows"]
    /\ UNCHANGED <<iStats, stats, fieldIterator, tagsIndex, config, urlQuery,
                   operator, whereLike, whereVal, outputQueries, outputIndices,
                   outputColumns, outputTagsIndex, outputTagsAppend, mergeText,
                   limit, dbQuery, rowIdx, jsonObjects, status, body>>

\* handler h: one pass of the loop over rows.Next()
ConcScanRow(h) ==
    /\ pc[h] = "rows"
    /\ rowIdx[h] < Len(rows[h])
    /\ rowIdx' = [rowIdx EXCEPT ![h] = rowIdx[h] + 1]
    /\ LET entry == Scan(outputColumns[h], rows[h][rowIdx[h] + 1])
           tags  == RowTags(entry, outputTagsIndex[h])
       IN jsonObjects' =
             [jsonObjects EXCEPT ![h] =
                 IF Filtered(config, urlQuery[h], operator[h], tags)
                 THEN jsonObjects[h]
                 ELSE Append(jsonObjects[h],
                             JsonObject(fieldIterator, outputIndices[h],
                                        Emitted(entry, outputTagsAppend[h])))]
    /\ UNCHANGED <<iStats, stats, fieldIterator, tagsIndex, config, pc, urlQuery,
                   operator, whereLike, whereVal, outputQueries, outputIndices,
                   outputColumns, outputTagsIndex, outputTagsAppend, mergeText,
                   limit, dbQuery, rows, status, body, nQueries>>

\* handler h: the cursor is at its end and the response is written
ConcFinish(h) ==
    /\ pc[h] = "rows"
    /\ rowIdx[h] = Len(rows[h])
    /\ body' = [body EXCEPT ![h] = Append(body[h], jsonObjects[h])]
    /\ pc' = [pc EXCEPT ![h] = "done"]
    /\ UNCHANGED <<iStats, stats, fieldIterator, tagsIndex, config, urlQuery,
                   operator, whereLike, whereVal, outputQueries, outputIndices,
                   outputColumns, outputTagsIndex, outputTagsAppend, mergeText,
                   limit, dbQuery, rows, rowIdx, jsonObjects, status, nQueries>>

\* handler h returns
ConcReturn(h) ==
    /\ pc[h] = "done"
    /\ pc' = [pc EXCEPT ![h] = "idle"]
    /\ urlQuery' = [urlQuery EXCEPT ![h] = NoParams]
    /\ operator' = [operator EXCEPT ![h] = " AND "]
    /\ whereLike' = [whereLike EXCEPT ![h] = <<>>]
    /\ whereVal' = [whereVal EXCEPT ![h] = <<>>]
    /\ outputQueries' = [outputQueries EXCEPT ![h] = <<>>]
    /\ outputIndices' = [outputIndices EXCEPT ![h] = <<>>]
    /\ outputColumns' = [outputColumns EXCEPT ![h] = <<>>]
    /\ outputTagsIndex' = [outputTagsIndex EXCEPT ![h] = 0]
    /\ outputTagsAppend' = [outputTagsAppend EXCEPT ![h] = FALSE]
    /\ mergeText' = [mergeText EXCEPT ![h] = ""]
    /\ limit' = [limit EXCEPT ![h] = 0]
    /\ dbQuery' = [dbQuery EXCEPT ![h] = ""]
    /\ rows' = [rows EXCEPT ![h] = <<>>]
    /\ rowIdx' = [rowIdx EXCEPT ![h] = 0]
    /\ jsonObjects' = [jsonObjects EXCEPT ![h] = <<>>]
    /\ status' = [status EXCEPT ![h] = StatusOK]
    /\ body' = [body EXCEPT ![h] = <<>>]
    /\ nQueries' = [nQueries EXCEPT ![h] = 0]
    /\ UNCHANGED <<iStats, stats, fieldIterator, tagsIndex, config>>

ConcNext ==
    \/ \E h \in Handlers : \E q \in ConcRequests : ConcReceive(h, q)
    \/ \E h \in Handlers : ConcExecQuery(h)
    \/ \E h \in Handlers : ConcScanRow(h)
    \/ \E h \in Handlers : ConcFinish(h)
    \/ \E h \in Handlers : ConcReturn(h)

ConcSpec == ConcInit /\ [][ConcNext]_vars

-----------------------------------------------------------------------------
(* Properties.                                                              *)

Handling == pc \in {"query", "rows", "done"}

Compiled == pc \in {"query", "rows"}

RegisteredNames == {fieldIterator.Name[i] : i \in 1..Len(fieldIterator.Name)}

\* no registered field and no smart search carries a value
NoFilter(q) ==
    /\ Get(q, "smartSearch") = <<>>
    /\ \A c \in RegisteredNames : Get(q, c) = <<>>

\* C1: a request in which smartSearch is empty and no registered field has a
\* non-empty value runs no database query and is answered with the empty
\* array, whatever fields, limit, filter, any and tagsStr are.
C1_NoFilterNoQuery ==
    (Handling /\ NoFilter(urlQuery)) =>
        /\ pc = "done"
        /\ nQueries = 0
        /\ rows = <<>>
        /\ status = StatusOK
        /\ body = << <<>> >>

C1_Witness ==
    /\ pc = "done"
    /\ NoFilter(urlQuery)
    /\ Has(urlQuery, "title")
    /\ Has(urlQuery, "tagsStr")
    /\ body = << <<>> >>

FilterParamNames == RegisteredNames \cup {"smartSearch"}

\* q and r differ at most in the contents of their filter sub-values and
\* smart-search terms
SameShape(q, r) ==
    /\ DOMAIN q = DOMAIN r
    /\ \A k \in DOMAIN q :
          IF k \in FilterParamNames
          THEN /\ (q[k] = <<>>) <=> (r[k] = <<>>)
               /\ Len(Split(q[k], <<",">>)) = Len(Split(r[k], <<",">>))
          ELSE q[k] = r[k]

\* C2: two requests that differ only in the contents of their filter
\* sub-values or smart-search terms compile to the same SQL text; the
\* contents are found in the bound arguments only.
C2_TextIndependentOfValues ==
    Compiled =>
        \A r \in Requests :
            SameShape(urlQuery, r) =>
                Compile(fieldIterator, tagsIndex, config, r).dbQuery = dbQuery

C2_Witness ==
    /\ pc = "query"
    /\ Get(urlQuery, "smartSearch") # <<>>
    /\ Get(urlQuery, "title") # <<>>
    /\ \E r \in Requests :
          /\ SameShape(urlQuery, r)
          /\ Compile(fieldIterator, tagsIndex, config, r).whereVal # whereVal

\* the sub-values of a request in the order they are compiled: the
\* smart-search terms, then the values of the fields in registry order
RECURSIVE FieldValues(_, _)
FieldValues(q, i) ==
    IF i > Len(fieldIterator.Name) THEN <<>>
    ELSE (IF Get(q, fieldIterator.Name[i]) = <<>> THEN <<>>
          ELSE Split(Get(q, fieldIterator.Name[i]), <<",">>))
         \o FieldValues(q, i + 1)

RequestValues(q) ==
    (IF Get(q, "smartSearch") = <<>> THEN <<>>
     ELSE Split(Get(q, "smartSearch"), <<",">>))
    \o FieldValues(q, 1)

\* the escaping the claim describes
EscapedChar(c) == IF c \in {"^", "%", "_"} THEN <<"^", c>> ELSE <<c>>

RECURSIVE Escaped(_)
Escaped(v) == IF v = <<>> THEN <<>> ELSE EscapedChar(Head(v)) \o Escaped(Tail(v))

\* v occurs in s as a run of consecutive characters
HasSubstring(s, v) ==
    \E i \in 1..(Len(s) - Len(v) + 1) : SubSeq(s, i, i + Len(v) - 1) = v

\* C3: the argument bound for a sub-value or term v is % esc(v) %, every
\* LIKE predicate names ^ as its escape character, and the argument matches
\* exactly the column values that contain v literally.
C3_LikeMatchesLiteralSubstring ==
    Compiled =>
        /\ Len(whereVal) = Len(RequestValues(urlQuery))
        /\ \A k \in 1..Len(whereVal) :
              /\ whereVal[k] = <<"%">> \o Escaped(RequestValues(urlQuery)[k]) \o <<"%">>
              /\ \A s \in ColStrs :
                    Like(whereVal[k], s, "^") <=> HasSubstring(s, RequestValues(urlQuery)[k])
        /\ \A g \in 1..Len(whereLike) : \A k \in 1..Len(whereLike[g].preds) :
              whereLike[g].preds[k].escape = "^"

C3_Witness ==
    /\ pc = "query"
    /\ Len(whereVal) = 2
    /\ whereVal[1] = <<"%", "^", "_", "%">>
    /\ whereVal[2] = <<"%", "^", "%", "%">>

\* a step of the loop over the cursor that scans a row
ScanStep == pc = "rows" /\ pc' = "rows" /\ rowIdx' = rowIdx + 1

\* the step appends an object to the response
EmitsRow == Len(jsonObjects') = Len(jsonObjects) + 1

\* the row a scanning step reads
ScannedRow == rows[rowIdx + 1]

\* the tags of a row of the table: its tag column split on "; "
TagColumn == fieldIterator.ColumnName[tagsIndex]

TagsOfRow(id) == Split(Cell(id, TagColumn), <<";", " ">>)

RequestedTags == Split(Get(urlQuery, "tagsStr"), <<",">>)

\* tag t is, case-insensitively, one of the tags of row id
HasTag(id, t) ==
    \E k \in 1..Len(TagsOfRow(id)) : ToLower(TagsOfRow(id)[k]) = ToLower(t)

OrMode == ToLower(Get(urlQuery, "any")) = cTrue

FilterOn == ToLower(Get(urlQuery, "filter")) = cTrue

\* a tag of row id is, as written, an entry of the blocklist
HasBlockedTag(id) ==
    \E k \in 1..Len(TagsOfRow(id)) : \E b \in 1..Len(config.FilteredTags) :
        TagsOfRow(id)[k] = config.FilteredTags[b]

\* C4: in AND mode with tagsStr supplied, a row is emitted only if every
\* requested tag is, case-insensitively, one of the row's tags.
C4_AndModeNeedsEveryTag ==
    [][(ScanStep /\ ~OrMode /\ Has(urlQuery, "tagsStr") /\ EmitsRow) =>
          \A k \in 1..Len(RequestedTags) : HasTag(ScannedRow, RequestedTags[k])]_vars

\* C5: in OR mode with tagsStr supplied, a row (that the blocklist does not
\* drop) is emitted if and only if at least one requested tag is,
\* case-insensitively, one of the row's tags.
C5_OrModeNeedsSomeTag ==
    [][(ScanStep /\ OrMode /\ Has(urlQuery, "tagsStr")
          /\ ~(FilterOn /\ HasBlockedTag(ScannedRow))) =>
          (EmitsRow <=>
              \E k \in 1..Len(RequestedTags) : HasTag(ScannedRow, RequestedTags[k]))]_vars

\* the tag-match loop drops the scanned row
TagMatchDrops ==
    /\ Has(urlQuery, "tagsStr")
    /\ TagLoop(RequestedTags, TagsLower(TagsOfRow(ScannedRow)), operator)

\* C6: with filter equal to "true" in any letter case, a row one of whose
\* tags is exactly an entry of the blocklist is never emitted; with filter
\* absent or different, a row is dropped by the tag match only.
C6_BlocklistDropsWhenFilterTrue ==
    [][ScanStep =>
          /\ (FilterOn /\ HasBlockedTag(ScannedRow)) => ~EmitsRow
          /\ ~FilterOn => (EmitsRow <=> ~TagMatchDrops)]_vars

C6_Witness ==
    /\ pc = "rows"
    /\ Get(urlQuery, "filter") = <<"T", "r", "u", "e">>
    /\ OrMode
    /\ Has(urlQuery, "tagsStr")
    /\ rowIdx = 2
    /\ HasBlockedTag(rows[2])
    /\ Len(jsonObjects) = 1

\* the output fields the claims describe: the names of `fields` that are
\* registered, in request order, or every registered name
ResolvedNames(q) ==
    LET names == Split(Get(q, "fields"), <<",">>)
        known == SelectSeq(names, LAMBDA n : Str(n) \in RegisteredNames)
    IN IF Has(q, "fields") /\ known # <<>>
       THEN [k \in 1..Len(known) |-> Str(known[k])]
       ELSE fieldIterator.Name

Keys(object) == [k \in 1..Len(object) |-> object[k].key]

\* C7: the keys of every emitted object are the names of the resolved output
\* fields, in that order; an object has no tags key when the resolved
\* fields do not name tags.
C7_KeysAreResolvedFields ==
    \A j \in 1..Len(jsonObjects) :
        /\ Keys(jsonObjects[j]) = ResolvedNames(urlQuery)
        /\ ~Contains(ResolvedNames(urlQuery), "tags") =>
              ~Contains(Keys(jsonObjects[j]), "tags")

C7_Witness ==
    /\ Len(jsonObjects) >= 2
    /\ Get(urlQuery, "fields") = cTitle \o <<",">> \o cPlatform
    /\ outputTagsAppend
    /\ Keys(jsonObjects[1]) = <<"title", "platform">>

\* the names of the positions resolved from the request, without the
\* appended tags position
ResolvedOutput ==
    LET kept == IF outputTagsAppend
                THEN SubSeq(outputIndices, 1, Len(outputIndices) - 1)
                ELSE outputIndices
    IN [k \in 1..Len(kept) |-> fieldIterator.Name[kept[k]]]

\* C8: the resolved output list is the names of `fields` that exactly match
\* a registered name, in request order, unknown names dropped; it is every
\* registered field in registry order when `fields` is absent or matches
\* nothing.
C8_FieldsResolution ==
    Compiled =>
        /\ ResolvedOutput = ResolvedNames(urlQuery)
        /\ (~Has(urlQuery, "fields")) => ResolvedOutput = fieldIterator.Name
        /\ status = StatusOK

C8_Witness ==
    /\ pc = "query"
    /\ Get(urlQuery, "fields") = cNope \o <<",">> \o cTitle
    /\ ResolvedOutput = <<"title">>

\* a request was compiled into a statement
Queried == Handling /\ Len(whereVal) > 0

ValidLimit ==
    /\ Has(urlQuery, "limit")
    /\ ~Atoi(Get(urlQuery, "limit")).err
    /\ Atoi(Get(urlQuery, "limit")).i > 0

RequestedLimit == Atoi(Get(urlQuery, "limit")).i

\* the compiled statement without a LIMIT clause
Unlimited == SelectText(outputColumns, outputQueries, mergeText, whereLike, operator)

CeilingLimit ==
    IF ValidLimit /\ RequestedLimit < config.SearchLimit
    THEN RequestedLimit
    ELSE config.SearchLimit

\* C9: under a positive ceiling C the statement ends in LIMIT n, n being the
\* requested limit when it parses and 0 < limit < C, and C otherwise; the
\* cursor delivers, and the response holds, at most n rows.
C9_LimitUnderCeiling ==
    (Queried /\ config.SearchLimit > 0) =>
        /\ dbQuery = Unlimited \o " LIMIT " \o FormatInt(CeilingLimit)
        /\ CeilingLimit <= config.SearchLimit
        /\ Len(rows) <= CeilingLimit
        /\ Len(jsonObjects) <= CeilingLimit

C9_Witness ==
    /\ pc = "done"
    /\ config.SearchLimit = 3
    /\ Get(urlQuery, "limit") = <<"5">>
    /\ Len(rows) = 3
    /\ body = << jsonObjects >>
    /\ Len(jsonObjects) = 3

\* C10: under a nonpositive ceiling a limit that parses as a positive
\* integer n gives LIMIT n, and without such a limit the statement has no
\* LIMIT clause.
C10_NonpositiveCeilingIsNone ==
    (Queried /\ config.SearchLimit <= 0) =>
        dbQuery = IF ValidLimit
                  THEN Unlimited \o " LIMIT " \o FormatInt(RequestedLimit)
                  ELSE Unlimited

-----------------------------------------------------------------------------
(* The WHERE clause.                                                        *)

\* the mode of the request as the claims name it
Mode == IF OrMode THEN " OR " ELSE " AND "

\* the terms of smartSearch
SmartTerms ==
    IF Get(urlQuery, "smartSearch") = <<>> THEN <<>>
    ELSE Split(Get(urlQuery, "smartSearch"), <<",">>)

\* the registry positions of the fields the request filters, in order
FilteredPositions ==
    SelectSeq([i \in 1..Len(fieldIterator.Name) |-> i],
              LAMBDA i : Get(urlQuery, fieldIterator.Name[i]) # <<>>)

SubValues(i) == Split(Get(urlQuery, fieldIterator.Name[i]), <<",">>)

\* the row holds sub-value j of the field at position i
MatchesSubValue(row, i, j) ==
    HasSubstring(Cell(row, fieldIterator.ColumnName[i]), SubValues(i)[j])

\* the group of the k-th filtered field is one parenthesised unit of one
\* predicate per sub-value, on the column of the field, joined by the mode
FieldGroupShape(k) ==
    LET g == whereLike[Len(SmartTerms) + k]
        i == FilteredPositions[k]
    IN /\ g.op = Mode
       /\ g.text = "(" \o Join(PredTexts(g.preds), Mode) \o ")"
       /\ Len(g.preds) = Len(SubValues(i))
       /\ \A j \in 1..Len(g.preds) :
             /\ g.preds[j].column = fieldIterator.ColumnName[i]
             /\ whereVal[g.preds[j].param] = <<"%">> \o Escaped(SubValues(i)[j]) \o <<"%">>

\* the cursor was not cut by LIMIT
Uncut == limit <= 0 \/ Len(rows) < limit

\* C11: the predicates of the sub-values of one field form one parenthesised
\* group joined by the mode of the request, and the groups are joined by that
\* mode; in AND mode a delivered row holds every sub-value of every filtered
\* field, in OR mode every row holding some sub-value of some filtered field
\* is delivered (up to LIMIT).
C11_GroupsJoinedByMode ==
    /\ Compiled =>
          /\ operator = Mode
          /\ Len(whereLike) = Len(SmartTerms) + Len(FilteredPositions)
          /\ \A k \in 1..Len(FilteredPositions) : FieldGroupShape(k)
    /\ (pc = "rows" /\ ~OrMode) =>
          \A r \in 1..Len(rows) : \A k \in 1..Len(FilteredPositions) :
             \A j \in 1..Len(SubValues(FilteredPositions[k])) :
                MatchesSubValue(rows[r], FilteredPositions[k], j)
    /\ (pc = "rows" /\ OrMode /\ Uncut) =>
          \A c \in 1..Len(From(1, mergeText)) :
             (\E k \in 1..Len(FilteredPositions) :
                 \E j \in 1..Len(SubValues(FilteredPositions[k])) :
                    MatchesSubValue(From(1, mergeText)[c], FilteredPositions[k], j))
             => \E r \in 1..Len(rows) : rows[r] = From(1, mergeText)[c]

\* AND mode, title filtered by two sub-values: a row holding both is
\* delivered, and a row of the table holds the first without the second
C11_Witness ==
    /\ pc = "rows"
    /\ ~OrMode
    /\ FilteredPositions = <<SliceIndex(fieldIterator.Name, "title")>>
    /\ Len(SubValues(FilteredPositions[1])) = 2
    /\ rows # <<>>
    /\ \E c \in 1..Len(From(1, mergeText)) :
          /\ MatchesSubValue(From(1, mergeText)[c], FilteredPositions[1], 1)
          /\ ~MatchesSubValue(From(1, mergeText)[c], FilteredPositions[1], 2)

-----------------------------------------------------------------------------
(* Serialisation.                                                           *)

\* the character a \u00XX escape stands for
Unescape(hex) ==
    IF hex = <<"0", "0", "3", "c">> THEN "<"
    ELSE IF hex = <<"0", "0", "3", "e">> THEN ">"
    ELSE IF hex = <<"0", "0", "2", "6">> THEN "&"
    ELSE "?"

\* a JSON reader: text is read as JSON strings separated by commas; at is
\* "start" before a string, "in" inside one, "after" behind one
RECURSIVE JsonStrings(_, _, _, _)
JsonStrings(text, at, cur, acc) ==
    IF text = <<>>
    THEN [ok |-> at = "after" \/ (at = "start" /\ acc = <<>>), strings |-> acc]
    ELSE IF at = "start"
         THEN IF Head(text) = "\"" THEN JsonStrings(Tail(text), "in", <<>>, acc)
              ELSE [ok |-> FALSE, strings |-> acc]
    ELSE IF at = "after"
         THEN IF Head(text) = "," /\ Len(text) > 1
              THEN JsonStrings(Tail(text), "start", <<>>, acc)
              ELSE [ok |-> FALSE, strings |-> acc]
    ELSE IF Head(text) = "\"" THEN JsonStrings(Tail(text), "after", <<>>, Append(acc, cur))
    ELSE IF Head(text) # "\\" THEN JsonStrings(Tail(text), "in", Append(cur, Head(text)), acc)
    ELSE IF Len(text) >= 2 /\ text[2] \in {"\"", "\\"}
         THEN JsonStrings(Tail(Tail(text)), "in", Append(cur, text[2]), acc)
    ELSE IF Len(text) >= 6 /\ text[2] = "u"
         THEN JsonStrings(SubSeq(text, 7, Len(text)), "in",
                          Append(cur, Unescape(SubSeq(text, 3, 6))), acc)
    ELSE [ok |-> FALSE, strings |-> acc]

\* text is JSON for exactly the strings
ReadsAs(text, strings) == JsonStrings(text, "start", <<>>, <<>>) = [ok |-> TRUE, strings |-> strings]

\* text is the rendering the claim describes of raw for a field of the type
Rendered(type, raw, text) ==
    IF type = "array"
    THEN /\ Len(text) >= 2
         /\ text[1] = "["
         /\ text[Len(text)] = "]"
         /\ ReadsAs(SubSeq(text, 2, Len(text) - 1), Split(raw, <<";", " ">>))
    ELSE IF type = "bool"
    THEN text = Trim(raw, "\"") /\ text \in {cTrue, cFalse}
    ELSE ReadsAs(text, <<raw>>)

RawChars == {"a", "\"", "\\", ";", " ", "&"}

\* the raw values the serialisation claim ranges over
RawStrs == UNION {[1..n -> RawChars] : n \in 0..MaxRawLen}

\* C12: a value of a string field is written as the JSON string of the raw
\* value, a value of an array field as the JSON array of the strings the raw
\* value splits into on "; " (for every raw value, with characters JSON
\* escapes or without), a value of a bool field as the bare token true or
\* false.
C12_TypedSerialisation ==
    /\ \A raw \in RawStrs :
          /\ Rendered("array", raw, JsonValue("array", raw))
          /\ Rendered("string", raw, JsonValue("string", raw))
    /\ \A raw \in {cTrue, cFalse} : Rendered("bool", raw, JsonValue("bool", raw))
    /\ [][(ScanStep /\ EmitsRow) =>
             LET object == jsonObjects'[Len(jsonObjects')]
             IN \A k \in 1..Len(object) :
                   Rendered(fieldIterator.Type[outputIndices[k]],
                            Cell(ScannedRow, fieldIterator.ColumnName[outputIndices[k]]),
                            object[k].value)]_vars

\* the object of a row whose title and tags hold characters JSON escapes, and
\* the object of a row with no tags, have been emitted with all their fields
C12_Witness ==
    /\ \E n \in 1..Len(jsonObjects) : \E k \in 1..Len(jsonObjects[n]) :
          /\ jsonObjects[n][k].key = "tags"
          /\ jsonObjects[n][k].value =
                <<"[", "\"", "\\", "\"", "\"", ",", "\"", "\\", "\\", "\"", ",",
                  "\"", "\\", "u", "0", "0", "2", "6", "\"", "]">>
          /\ \E z \in 1..Len(jsonObjects[n]) :
                jsonObjects[n][z].key = "zipped" /\ jsonObjects[n][z].value = cFalse
    /\ \E n \in 1..Len(jsonObjects) : \E k \in 1..Len(jsonObjects[n]) :
          /\ jsonObjects[n][k].key = "tags"
          /\ jsonObjects[n][k].value = <<"[", "\"", "\"", "]">>

-----------------------------------------------------------------------------
(* Failures.                                                                *)

\* the step in which db.Query returns an error
QueryFails == pc = "query" /\ pc' # "rows"

\* C13: when the statement fails, the status is 500, no body is written, no
\* row is processed and the handler ends; db.Query is called at most once
\* for a request.
C13_QueryFailureIs500 ==
    /\ [](nQueries <= 1)
    /\ [][QueryFails =>
             /\ pc' = "done"
             /\ status' = StatusInternalServerError
             /\ body' = <<>>
             /\ rowIdx' = 0
             /\ jsonObjects' = <<>>
             /\ nQueries' = 1]_vars
    /\ [][status = StatusInternalServerError => pc' = "idle"]_vars

C13_Witness ==
    /\ pc = "done"
    /\ status = StatusInternalServerError
    /\ nQueries = 1
    /\ body = <<>>

\* the row survives the blocklist and the tag match
Survives(row) ==
    ~Filtered(config, urlQuery, operator,
              RowTags(Scan(outputColumns, row), outputTagsIndex))

\* the objects of the surviving rows among the first n of the cursor
Survivors(n) ==
    LET kept == SelectSeq(SubSeq(rows, 1, n), Survives)
    IN [k \in 1..Len(kept) |->
           JsonObject(fieldIterator, outputIndices,
                      Emitted(Scan(outputColumns, kept[k]), outputTagsAppend))]

\* the step in which rows.Scan returns an error
ScanFails == pc = "rows" /\ pc' = "done" /\ rowIdx' = rowIdx + 1

\* C14: when the scan of the k-th row fails the loop stops; the response has
\* status 200 and is the array of exactly the objects of the surviving rows
\* among rows 1..k-1; neither the failing row nor a later one is read again.
C14_ScanFailureKeepsCollected ==
    /\ [](pc = "rows" => jsonObjects = Survivors(rowIdx))
    /\ [][ScanFails =>
             /\ body' = <<Survivors(rowIdx)>>
             /\ jsonObjects' = jsonObjects
             /\ status' = StatusOK]_vars
    /\ [][pc = "done" => (pc' = "idle" /\ rowIdx' = 0)]_vars

\* the scan of a row after the second failed with later rows left in the
\* cursor, and the objects collected before were written
C14_Witness ==
    /\ pc = "done"
    /\ status = StatusOK
    /\ rowIdx >= 3
    /\ rowIdx < Len(rows)
    /\ jsonObjects # <<>>
    /\ body = <<jsonObjects>>

\* C15: the status of a response is 200 unless the database failed the
\* statement, and then it is 500; whatever the request holds (fields that
\* are not registered, a limit that does not parse or is not positive,
\* unknown parameters or values of any and filter), no other status is
\* produced.
C15_NeverClientError ==
    /\ status \in {200, 500}
    /\ status # 200 => (pc = "done" /\ nQueries = 1 /\ rows = <<>> /\ body = <<>>)
    /\ (pc = "done" /\ body # <<>>) => status = 200

\* a request whose limit does not parse has been answered with rows
C15_Witness ==
    /\ pc = "done"
    /\ Has(urlQuery, "limit")
    /\ Atoi(Get(urlQuery, "limit")).err
    /\ status = 200
    /\ body = <<jsonObjects>>
    /\ jsonObjects # <<>>

-----------------------------------------------------------------------------
(* The join.                                                                *)

\* what the handler would scan from the cursor of the compiled statement
\* with merge as its join
ScannedWith(merge) ==
    LET cursor == Cursor(whereLike, operator, whereVal, limit, merge)
    IN [r \in 1..Len(cursor) |-> Scan(outputColumns, cursor[r])]

\* C16: when no selected or filtered field needs the join, the statement
\* gives the same rows, as often and in the same order, without the join as
\* with it.
C16_JoinKeepsRows ==
    (pc = "query" /\ mergeText = "") => ScannedWith("") = ScannedWith(JoinClause)

\* the registry positions of the fields the statement selects or filters:
\* the output columns (the appended tags column among them), the filtered
\* fields and, with smart search, the fields it reads
UsedPositions ==
    {outputIndices[k] : k \in 1..Len(outputIndices)}
    \cup {FilteredPositions[k] : k \in 1..Len(FilteredPositions)}
    \cup (IF SmartTerms # <<>>
          THEN {SmartIndices[k] : k \in 1..Len(SmartIndices)}
          ELSE {})

NeedsJoin == \E i \in UsedPositions : fieldIterator.DataTable[i]

\* C17: the statement names LEFT JOIN game_data exactly when a field it
\* selects, filters or smart-searches is read from game_data; otherwise its
\* inner SELECT reads from game alone.
C17_JoinElision ==
    Compiled =>
        /\ mergeText = IF NeedsJoin
                       THEN " LEFT JOIN game_data ON game.id=game_data.gameId"
                       ELSE ""
        /\ dbQuery = WithLimit(SelectText(outputColumns, outputQueries, mergeText,
                                          whereLike, operator), limit)

\* the join is written for a filtered field alone: no output column is read
\* from game_data
C17_Witness ==
    /\ Compiled
    /\ mergeText = " LEFT JOIN game_data ON game.id=game_data.gameId"
    /\ \A k \in 1..Len(outputIndices) : ~fieldIterator.DataTable[outputIndices[k]]
    /\ \E k \in 1..Len(FilteredPositions) : fieldIterator.DataTable[FilteredPositions[k]]

-----------------------------------------------------------------------------
(* Smart search.                                                            *)

\* the fields smart search is to span
SmartNames == <<"title", "alternateTitles", "series", "developer", "publisher">>

\* the columns of those fields in the registry
SmartColumns ==
    {fieldIterator.ColumnName[SliceIndex(fieldIterator.Name, SmartNames[k])] :
        k \in 1..Len(SmartNames)}

\* the group of the t-th term ORs one predicate on each of the five columns,
\* all against the one argument bound for the term
SmartGroupShape(t) ==
    LET g == whereLike[t]
    IN /\ g.op = " OR "
       /\ g.text = "(" \o Join(PredTexts(g.preds), " OR ") \o ")"
       /\ Len(g.preds) = Len(SmartNames)
       /\ {g.preds[j].column : j \in 1..Len(g.preds)} = SmartColumns
       /\ \A j \in 1..Len(g.preds) :
             /\ g.preds[j].param = t
             /\ whereVal[t] = <<"%">> \o Escaped(SmartTerms[t]) \o <<"%">>

\* C18: whatever the positions of title, alternateTitles, series, developer
\* and publisher in the registry, each smartSearch term gives one
\* parenthesised group ORing a LIKE predicate on each of the five against the
\* one argument of the term, and the groups are joined with each other and
\* with the groups of the filtered fields by the mode.
C18_SmartSearchSpansFiveFields ==
    (Compiled /\ SmartTerms # <<>>
       /\ \A k \in 1..Len(SmartNames) : SmartNames[k] \in RegisteredNames) =>
        /\ operator = Mode
        /\ Len(whereLike) = Len(SmartTerms) + Len(FilteredPositions)
        /\ \A t \in 1..Len(SmartTerms) : SmartGroupShape(t)

-----------------------------------------------------------------------------
(* The tags column and the output fields.                                   *)

\* requests q and r differ in nothing but fields
SameButFields(q, r) ==
    \A k \in (DOMAIN q \cup DOMAIN r) \ {"fields"} :
        Has(q, k) = Has(r, k) /\ Get(q, k) = Get(r, k)

\* the row survives the blocklist and the tag match of request r
SurvivesFor(r, row) ==
    LET out == OutputTags(fieldIterator, tagsIndex, r)
    IN ~Filtered(config, r, Operator(r),
                 RowTags(Scan(OutputColumns(fieldIterator, out.outputIndices), row),
                         out.outputTagsIndex))

\* C19: the tags column is among the scanned columns of every statement, last
\* when it was appended, and is then left out of the object; a row of the
\* cursor survives the blocklist and the tag match of the request exactly
\* when it survives those of every request that differs from it in fields
\* alone.
C19_TagFilterIgnoresFields ==
    /\ [](Compiled =>
            /\ outputColumns[outputTagsIndex] = TagColumn
            /\ outputTagsAppend => outputTagsIndex = Len(outputIndices))
    /\ [][ScanStep =>
             /\ \A r \in Requests :
                   SameButFields(urlQuery, r) => (EmitsRow <=> SurvivesFor(r, ScannedRow))
             /\ (EmitsRow /\ outputTagsAppend) =>
                   /\ Len(jsonObjects'[Len(jsonObjects')]) = Len(outputIndices) - 1
                   /\ \A k \in 1..(Len(outputIndices) - 1) :
                         jsonObjects'[Len(jsonObjects')][k].key # "tags"]_vars

\* for a request naming title alone the tags column was appended; one row
\* was dropped for its tags and another emitted
C19_Witness ==
    /\ pc = "rows"
    /\ Get(urlQuery, "fields") = cTitle
    /\ outputTagsAppend
    /\ Len(jsonObjects) >= 1
    /\ rowIdx > Len(jsonObjects)

-----------------------------------------------------------------------------
(* A registry without tags.                                                 *)

\* C20: when no field of the registry is named tags, no search request
\* crashes or fails while it is handled.
C20_NoCrashWithoutTags ==
    tagsIndex = 0 => pc # "panic"

-----------------------------------------------------------------------------
(* What a request leaves alone.                                             *)

\* C21: no step of the handling of a search request changes the field
\* registry, the cached position of tags or the configuration; they stay as
\* startup left them.
C21_RegistryAndConfigUnchanged ==
    /\ [](/\ \E fields \in Registries : fieldIterator = BuildFieldIterator(fields)
          /\ tagsIndex = SliceIndex(fieldIterator.Name, "tags")
          /\ config \in Configs)
    /\ [][/\ fieldIterator' = fieldIterator
          /\ tagsIndex' = tagsIndex
          /\ config' = config]_vars

\* a request with a limit of its own has been answered with rows
C21_Witness ==
    /\ pc = "done"
    /\ Has(urlQuery, "limit")
    /\ limit # config.SearchLimit
    /\ nQueries = 1
    /\ jsonObjects # <<>>

-----------------------------------------------------------------------------
(* The order of the response.                                               *)

\* the registry positions of the fields the response shows
ShownPositions ==
    IF outputTagsAppend
    THEN SubSeq(outputIndices, 1, Len(outputIndices) - 1)
    ELSE outputIndices

\* the object of a row as the response is to show it
ObjectOf(row) ==
    [k \in 1..Len(ShownPositions) |->
        [key   |-> fieldIterator.Name[ShownPositions[k]],
         value |-> JsonValue(fieldIterator.Type[ShownPositions[k]],
                             Cell(row, fieldIterator.ColumnName[ShownPositions[k]]))]]

\* C22: the response lists the surviving rows in the order the cursor
\* delivered them: a scanning step leaves the objects collected so far in
\* place and puts the object of its row, if the row survives, behind them;
\* the body is the list as collected; the statement ends with its WHERE
\* clause and, at most, a LIMIT clause, so it has no ORDER BY.
C22_ResponseInCursorOrder ==
    /\ [][ScanStep =>
             \/ jsonObjects' = jsonObjects
             \/ jsonObjects' = Append(jsonObjects, ObjectOf(ScannedRow))]_vars
    /\ [][(pc = "rows" /\ pc' = "done") => body' = <<jsonObjects>>]_vars
    /\ [](Compiled =>
            dbQuery = "SELECT " \o Join(outputColumns, ",")
                        \o " FROM (SELECT " \o Join(outputQueries, ",")
                        \o " FROM game" \o mergeText
                        \o ") WHERE " \o Join(GroupTexts(whereLike), operator)
                        \o (IF limit > 0 THEN " LIMIT " \o FormatInt(limit) ELSE ""))

\* two rows were emitted, a row delivered between the first and the last of
\* the cursor was dropped, and the response was written
C22_Witness ==
    /\ pc = "done"
    /\ Len(jsonObjects) >= 2
    /\ rowIdx = Len(rows)
    /\ rowIdx > Len(jsonObjects)
    /\ body = <<jsonObjects>>

-----------------------------------------------------------------------------
(* Requests handled at the same time.                                       *)

\* the response to request q when it is handled alone
AloneObjects(q) ==
    LET c      == Compile(fieldIterator, tagsIndex, config, q)
        cursor == Cursor(c.whereLike, c.operator, c.whereVal, c.limit, c.mergeText)
        kept   == SelectSeq(cursor,
                            LAMBDA row : ~Filtered(config, q, c.operator,
                                                   RowTags(Scan(c.outputColumns, row),
                                                           c.outputTagsIndex)))
    IN [k \in 1..Len(kept) |->
           JsonObject(fieldIterator, c.outputIndices,
                      Emitted(Scan(c.outputColumns, kept[k]), c.outputTagsAppend))]

AloneResponse(q) ==
    IF Len(Where(fieldIterator, q).whereVal) > 0 THEN AloneObjects(q) ELSE <<>>

\* handler h has compiled a statement
ConcCompiled(h) == pc[h] \in {"query", "rows"}

\* handler h can take the step its position calls for: receive a request,
\* call db.Query, write the response or return; in the row loop short of the
\* end of the cursor its step is ConcScanRow(h), which asks for nothing else
CanStep(h) ==
    IF pc[h] = "idle" THEN ENABLED ConcReceive(h, NoParams)
    ELSE IF pc[h] = "query" THEN ENABLED ConcExecQuery(h)
    ELSE IF pc[h] = "rows"
         THEN rowIdx[h] < Len(rows[h]) \/ ENABLED ConcFinish(h)
    ELSE ENABLED ConcReturn(h)

-----------------------------------------------------------------------------
\* The list the requested tags are looked up in

\* the list the tag-match loop of a scanning step looks the requested tags
\* up in
LookedUpIn == TagsLower(TagsOfRow(ScannedRow))

\* C24: the list a requested tag is looked up in holds the lowercased tags of
\* the scanned row and nothing else, so the empty requested tag is found only
\* in a row that has an empty tag.
C24_TagsLowerIsExact ==
    [][(ScanStep /\ Has(urlQuery, "tagsStr")) =>
          /\ \A k \in 1..Len(LookedUpIn) : HasTag(ScannedRow, LookedUpIn[k])
          /\ \A k \in 1..Len(TagsOfRow(ScannedRow)) :
                Contains(LookedUpIn, ToLower(TagsOfRow(ScannedRow)[k]))
          /\ Contains(LookedUpIn, <<>>) => HasTag(ScannedRow, <<>>)]_vars

-----------------------------------------------------------------------------
\* Patterns that match everything

\* C25: no compiled statement has a match-all predicate: every bound LIKE
\* pattern has at least one character between its two % signs, so a value
\* made of separators only cannot return the whole table.
C25_NoMatchAllPattern ==
    Compiled => \A k \in 1..Len(whereVal) : Len(whereVal[k]) > 2

-----------------------------------------------------------------------------
\* The columns the outer statement names

\* the columns the WHERE clause names
WhereColumns ==
    UNION {{whereLike[g].preds[k].column : k \in 1..Len(whereLike[g].preds)} :
              g \in 1..Len(whereLike)}

\* the columns the outer SELECT names
SelectColumns == {outputColumns[k] : k \in 1..Len(outputColumns)}

\* C26: for every registry, also one in which a field's name and columnName
\* differ, every column the outer SELECT or the WHERE clause names is a
\* column the inner SELECT produces.
C26_OuterColumnsAreProduced ==
    Compiled =>
        (WhereColumns \cup SelectColumns) \subseteq
            InnerColumns(fieldIterator, outputQueries)

-----------------------------------------------------------------------------
\* The keys of an object

\* C27: the keys of every emitted object are pairwise distinct, whatever the
\* fields parameter lists.
C27_KeysAreDistinct ==
    \A o \in 1..Len(jsonObjects) :
        \A j \in 1..Len(jsonObjects[o]) : \A k \in 1..Len(jsonObjects[o]) :
            j # k => jsonObjects[o][j].key # jsonObjects[o][k].key

-----------------------------------------------------------------------------
\* Placeholders and bound arguments

\* the predicates of the WHERE clause that carry placeholder p
PredsOf(p) ==
    {<<g, k>> \in (1..Len(whereLike)) \X (1..Len(SmartIndices)) :
        k <= Len(whereLike[g].preds) /\ whereLike[g].preds[k].param = p}

\* the placeholder numbers the WHERE clause carries
Placeholders ==
    UNION {{whereLike[g].preds[k].param : k \in 1..Len(whereLike[g].preds)} :
              g \in 1..Len(whereLike)}

\* C30: the placeholders of the WHERE clause are exactly 1..n for n bound
\* arguments; the argument of a smartSearch term is shared by the five
\* predicates of its group, the argument of a field sub-value is used by one
\* predicate only; argument k is the pattern of the k-th term or sub-value in
\* the order they are compiled.
C30_PlaceholdersMatchArguments ==
    Compiled =>
        /\ Placeholders = 1..Len(whereVal)
        /\ Len(whereVal) = Len(RequestValues(urlQuery))
        /\ \A p \in 1..Len(whereVal) :
              /\ whereVal[p] = <<"%">> \o Escaped(RequestValues(urlQuery)[p]) \o <<"%">>
              /\ IF p <= Len(SmartTerms)
                 THEN PredsOf(p) = {p} \X (1..Len(SmartIndices))
                 ELSE Cardinality(PredsOf(p)) = 1
        /\ \A g \in 1..Len(whereLike) : \A k \in 1..Len(whereLike[g].preds) :
              whereLike[g].preds[k].text =
                  whereLike[g].preds[k].column \o " LIKE $"
                    \o FormatInt(whereLike[g].preds[k].param) \o " ESCAPE '^'"

\* a smart-search term and a filtered field: two arguments, six predicates
C30_Witness ==
    /\ pc = "query"
    /\ Len(SmartTerms) = 1
    /\ Len(whereVal) = 2
    /\ Cardinality(PredsOf(1)) = Len(SmartIndices)
    /\ Cardinality(PredsOf(2)) = 1

-----------------------------------------------------------------------------
(* statsHandler: three GROUP BY queries, their rows collected into the      *)
(* three totals of Stats, which marshalAndWrite writes.                     *)

MaxStatRows == 2      \* most rows a GROUP BY cursor delivers

\* len(queries)
NumStatsQueries == 3

\* the JSON keys of Stats, in the order of totals
StatsKeys == <<"libraryTotals", "formatTotals", "platformTotals">>

\* the rows a GROUP BY query can deliver: a name and its count
ColumnStats == { [Name |-> "arcade", Count |-> 2], [Name |-> "theatre", Count |-> 1],
                 [Name |-> "legacy", Count |-> 3] }

\* the cursors of a GROUP BY query: no name twice
StatsCursors ==
    {c \in UNION {[1..n -> ColumnStats] : n \in 0..MaxStatRows} :
        \A j \in 1..Len(c) : \A k \in 1..Len(c) : j # k => c[j].Name # c[k].Name}

\* the nil *sql.Rows db.Query returns with an error
NilRows == <<[nil |-> TRUE]>>

\* json.Marshal(stats): one member per total, in the order of the struct
MarshalStats(totals) ==
    [k \in 1..Len(totals) |-> [key |-> StatsKeys[k], value |-> totals[k]]]

StatsInit ==
    /\ fieldIterator = BuildFieldIterator(MetadataFields)
    /\ tagsIndex = SliceIndex(BuildFieldIterator(MetadataFields).Name, "tags")
    /\ config \in Configs
    /\ Idle

\* the handler is entered: var stats Stats, i := 0
StatsReceive ==
    /\ pc = "idle"
    /\ pc' = "statsQuery"
    /\ iStats' = 1
    /\ stats' = <<>>
    /\ UNCHANGED <<fieldIterator, tagsIndex, config, urlQuery, operator, whereLike,
                   whereVal, outputQueries, outputIndices, outputColumns,
                   outputTagsIndex, outputTagsAppend, mergeText, limit, dbQuery,
                   rows, rowIdx, jsonObjects, status, body, nQueries>>

\* *totals[i] = make(..), then db.Query(queries[i]) returns a cursor
StatsQuery ==
    /\ pc = "statsQuery"
    /\ \E c \in StatsCursors : rows' = c
    /\ rowIdx' = 0
    /\ stats' = Append(stats, <<>>)
    /\ nQueries' = nQueries + 1
    /\ pc' = "statsRows"
    /\ UNCHANGED <<fieldIterator, tagsIndex, config, urlQuery, operator, whereLike,
                   whereVal, outputQueries, outputIndices, outputColumns,
                   outputTagsIndex, outputTagsAppend, mergeText, limit, dbQuery,
                   jsonObjects, status, body, iStats>>

\* db.Query(queries[i]) returns an error: WriteHeader(500), and the handler
\* goes on to the loop over rows
StatsQueryFail ==
    /\ pc = "statsQuery"
    /\ rows' = NilRows
    /\ rowIdx' = 0
    /\ stats' = Append(stats, <<>>)
    /\ nQueries' = nQueries + 1
    /\ status' = StatusInternalServerError
    /\ pc' = "statsRows"
    /\ UNCHANGED <<fieldIterator, tagsIndex, config, urlQuery, operator, whereLike,
                   whereVal, outputQueries, outputIndices, outputColumns,
                   outputTagsIndex, outputTagsAppend, mergeText, limit, dbQuery,
                   jsonObjects, body, iStats>>

\* rows.Next() on the nil cursor: a nil dereference, the handler panics and
\* the server closes the connection without a response
StatsNilNext ==
    /\ pc = "statsRows"
    /\ rows = NilRows
    /\ pc' = "panic"
    /\ UNCHANGED <<fieldIterator, tagsIndex, config, urlQuery, operator, whereLike,
                   whereVal, outputQueries, outputIndices, outputColumns,
                   outputTagsIndex, outputTagsAppend, mergeText, limit, dbQuery,
                   rows, rowIdx, jsonObjects, status, body, nQueries, iStats, stats>>

\* rows.Next() is true and rows.Scan succeeds: the row is appended to
\* *totals[i]
StatsScanRow ==
    /\ pc = "statsRows"
    /\ rows # NilRows
    /\ rowIdx < Len(rows)
    /\ rowIdx' = rowIdx + 1
    /\ stats' = [stats EXCEPT ![iStats] = Append(@, rows[rowIdx + 1])]
    /\ UNCHANGED <<fieldIterator, tagsIndex, config, pc, urlQuery, operator,
                   whereLike, whereVal, outputQueries, outputIndices,
                   outputColumns, outputTagsIndex, outputTagsAppend, mergeText,
                   limit, dbQuery, rows, jsonObjects, status, body, nQueries,
                   iStats>>

\* i++ and the test i < 3: the next query, or marshalAndWrite
StatsAdvance ==
    /\ iStats' = iStats + 1
    /\ pc' = IF iStats < NumStatsQueries THEN "statsQuery" ELSE "statsWrite"
    /\ UNCHANGED <<fieldIterator, tagsIndex, config, urlQuery, operator, whereLike,
                   whereVal, outputQueries, outputIndices, outputColumns,
                   outputTagsIndex, outputTagsAppend, mergeText, limit, dbQuery,
                   rows, rowIdx, jsonObjects, status, body, nQueries, stats>>

\* rows.Scan returns an error: break
StatsScanFail ==
    /\ pc = "statsRows"
    /\ rows # NilRows
    /\ rowIdx < Len(rows)
    /\ StatsAdvance

\* rows.Next() is false: the loop over rows ends
StatsRowsEnd ==
    /\ pc = "statsRows"
    /\ rows # NilRows
    /\ rowIdx = Len(rows)
    /\ StatsAdvance

\* marshalAndWrite(stats, w)
StatsWrite ==
    /\ pc = "statsWrite"
    /\ body' = <<MarshalStats(stats)>>
    /\ pc' = "done"
    /\ UNCHANGED <<fieldIterator, tagsIndex, config, urlQuery, operator, whereLike,
                   whereVal, outputQueries, outputIndices, outputColumns,
                   outputTagsIndex, outputTagsAppend, mergeText, limit, dbQuery,
                   rows, rowIdx, jsonObjects, status, nQueries, iStats, stats>>

\* the handler returns, or the server has recovered its panic
StatsReturn ==
    /\ pc \in {"done", "panic"}
    /\ pc' = "idle"
    /\ rows' = <<>>
    /\ rowIdx' = 0
    /\ status' = StatusOK
    /\ body' = <<>>
    /\ nQueries' = 0
    /\ iStats' = 0
    /\ stats' = <<>>
    /\ UNCHANGED <<fieldIterator, tagsIndex, config, urlQuery, operator, whereLike,
                   whereVal, outputQueries, outputIndices, outputColumns,
                   outputTagsIndex, outputTagsAppend, mergeText, limit, dbQuery,
                   jsonObjects>>

StatsNext ==
    \/ StatsReceive
    \/ StatsQuery
    \/ StatsQueryFail
    \/ StatsNilNext
    \/ StatsScanRow
    \/ StatsScanFail
    \/ StatsRowsEnd
    \/ StatsWrite
    \/ StatsReturn

StatsSpec == StatsInit /\ [][StatsNext]_vars

\* C29: when one of the three queries of statsHandler fails, the handler sets
\* 500 and stops: once the status is 500 the handler has returned, having
\* neither iterated the failed cursor nor run another query, with no body
\* written.
C29_StatsStopsOnFailedQuery ==
    status = StatusInternalServerError =>
        /\ pc = "done"
        /\ rowIdx = 0
        /\ body = <<>>

-----------------------------------------------------------------------------
(* getHandler: a game zip by id, or a legacy file by url.                   *)

MaxSegs == 3          \* most path segments in a requested url

StatusBadRequest == 400
StatusNotFound == 404

\* strings.HasPrefix and strings.TrimPrefix
HasPrefix(s, prefix) ==
    Len(s) >= Len(prefix) /\ SubSeq(s, 1, Len(prefix)) = prefix

TrimPrefix(s, prefix) ==
    IF HasPrefix(s, prefix) THEN SubSeq(s, Len(prefix) + 1, Len(s)) ELSE s

cSlash  == <<"/">>
cDotDot == <<".", ".">>
cHttp   == <<"h", "t", "t", "p", ":", "/", "/">>

\* filepath.Clean on the elements of a path: empty elements and "." are
\* dropped, ".." drops the element before it; at the root it is dropped, at
\* the start of a relative path it is kept
RECURSIVE CleanElems(_, _, _)
CleanElems(elems, acc, rooted) ==
    IF elems = <<>> THEN acc
    ELSE IF Head(elems) \in {<<>>, <<".">>} THEN CleanElems(Tail(elems), acc, rooted)
    ELSE IF Head(elems) = cDotDot
         THEN IF acc # <<>> /\ acc[Len(acc)] # cDotDot
              THEN CleanElems(Tail(elems), SubSeq(acc, 1, Len(acc) - 1), rooted)
              ELSE IF rooted THEN CleanElems(Tail(elems), acc, rooted)
              ELSE CleanElems(Tail(elems), Append(acc, cDotDot), rooted)
    ELSE CleanElems(Tail(elems), Append(acc, Head(elems)), rooted)

\* filepath.Clean
Clean(path) ==
    LET rooted == HasPrefix(path, cSlash)
        elems  == CleanElems(Split(path, cSlash), <<>>, rooted)
    IN IF rooted THEN cSlash \o JoinSeq(elems, cSlash)
       ELSE IF elems = <<>> THEN <<".">>
       ELSE JoinSeq(elems, cSlash)

\* filepath.Join of two elements: the empty ones are ignored, the rest are
\* joined by the separator and cleaned
FilepathJoin(a, b) ==
    IF a = <<>> /\ b = <<>> THEN <<>>
    ELSE IF a = <<>> THEN Clean(b)
    ELSE IF b = <<>> THEN Clean(a)
    ELSE Clean(a \o cSlash \o b)

\* the files on disk and what they hold: one in the legacy directory, one in
\* a directory beside it, one above it, one game zip
Disk ==
    { [path |-> <<"/", "s", "/", "l", "/", "a">>,           data |-> <<"i", "n">>],
      [path |-> <<"/", "s", "/", "l", "x", "/", "a">>,      data |-> <<"b", "e", "s", "i", "d", "e">>],
      [path |-> <<"/", "s", "/", "a">>,                     data |-> <<"a", "b", "o", "v", "e">>],
      [path |-> <<"/", "s", "/", "z", "/", "g">>,           data |-> <<"z", "i", "p">>] }

\* os.ReadFile: err is TRUE for a path that is no file
ReadFile(path) ==
    IF \E f \in Disk : f.path = path
    THEN [err |-> FALSE, data |-> (CHOOSE f \in Disk : f.path = path).data]
    ELSE [err |-> TRUE, data |-> <<>>]

\* column path of table game_data, by gameId
ZipPaths == (<<"1">> :> <<"g">>) @@ (<<"2">> :> <<"m">>)

\* the configurations under which main registers /get
GetConfigs ==
    {[SearchLimit |-> 3, FilteredTags |-> FilteredTags, LegacyPath |-> l, GameZipPath |-> z] :
        l \in {<<>>, <<"/", "s", "/", "l">>, <<"/", "s", "/", "l", "/">>},
        z \in {<<>>, <<"/", "s", "/", "z">>}}
    \ {[SearchLimit |-> 3, FilteredTags |-> FilteredTags, LegacyPath |-> <<>>,
         GameZipPath |-> <<>>]}

UrlSegs == {cDotDot, <<".">>, <<>>, <<"a">>, <<"l">>, <<"l", "x">>}

UrlPaths ==
    UNION {{JoinSeq(segs, cSlash) : segs \in [1..n -> UrlSegs]} : n \in 1..MaxSegs}

\* the requests sent to /get
GetRequests ==
    {"url" :> u : u \in UrlPaths}
    \cup {"url" :> (cHttp \o u) : u \in UrlPaths}
    \cup {"id" :> v : v \in {<<"1">>, <<"2">>, <<"3">>}}
    \cup {("id" :> <<"1">>) @@ ("url" :> <<"a">>), ("id" :> <<"3">>) @@ ("url" :> <<"a">>),
          NoParams, "title" :> <<"a">>}

GetInit ==
    /\ fieldIterator = BuildFieldIterator(MetadataFields)
    /\ tagsIndex = SliceIndex(BuildFieldIterator(MetadataFields).Name, "tags")
    /\ config \in GetConfigs
    /\ Idle

\* the first branch is taken
ById(q) == Has(q, "id") /\ config.GameZipPath # <<>>

\* the second branch is taken
ByUrl(q) == ~ById(q) /\ Has(q, "url") /\ config.LegacyPath # <<>>

\* the file the second branch reads
LegacyFile(q) ==
    FilepathJoin(config.LegacyPath,
                 ReplaceAll(TrimPrefix(Get(q, "url"), cHttp), cSlash, cSlash))

\* getHandler, first branch: the path of the game's zip is read from
\* game_data (the query may fail, or find no row) and the file is written;
\* otherwise 404
GetById(q) ==
    /\ pc = "idle"
    /\ ById(q)
    /\ urlQuery' = q
    /\ nQueries' = nQueries + 1
    /\ \E scanErr \in {TRUE, Get(q, "id") \notin DOMAIN ZipPaths} :
          \E gameZip \in (IF scanErr THEN {<<>>} ELSE {ZipPaths[Get(q, "id")]}) :
             \E file \in {ReadFile(FilepathJoin(config.GameZipPath, gameZip))} :
                IF ~scanErr /\ ~file.err
                THEN status' = StatusOK /\ body' = <<file.data>>
                ELSE status' = StatusNotFound /\ body' = <<>>
    /\ pc' = "done"
    /\ UNCHANGED <<fieldIterator, tagsIndex, config, operator, whereLike, whereVal,
                   outputQueries, outputIndices, outputColumns, outputTagsIndex,
                   outputTagsAppend, mergeText, limit, dbQuery, rows, rowIdx,
                   jsonObjects, iStats, stats>>

\* getHandler, second branch: the file named by url under the legacy
\* directory is written when its path has config.LegacyPath as a prefix and
\* it can be read; otherwise 404
GetByUrl(q) ==
    /\ pc = "idle"
    /\ ByUrl(q)
    /\ urlQuery' = q
    /\ \E file \in {LegacyFile(q)} :
          IF HasPrefix(file, config.LegacyPath) /\ ~ReadFile(file).err
          THEN status' = StatusOK /\ body' = <<ReadFile(file).data>>
          ELSE status' = StatusNotFound /\ body' = <<>>
    /\ pc' = "done"
    /\ UNCHANGED <<fieldIterator, tagsIndex, config, operator, whereLike, whereVal,
                   outputQueries, outputIndices, outputColumns, outputTagsIndex,
                   outputTagsAppend, mergeText, limit, dbQuery, rows, rowIdx,
                   jsonObjects, nQueries, iStats, stats>>

\* getHandler, neither branch: 400
GetBadRequest(q) ==
    /\ pc = "idle"
    /\ ~ById(q)
    /\ ~ByUrl(q)
    /\ urlQuery' = q
    /\ status' = StatusBadRequest
    /\ body' = <<>>
    /\ pc' = "done"
    /\ UNCHANGED <<fieldIterator, tagsIndex, config, operator, whereLike, whereVal,
                   outputQueries, outputIndices, outputColumns, outputTagsIndex,
                   outputTagsAppend, mergeText, limit, dbQuery, rows, rowIdx,
                   jsonObjects, nQueries, iStats, stats>>

GetNext ==
    \/ \E q \in GetRequests : GetById(q)
    \/ \E q \in GetRequests : GetByUrl(q)
    \/ \E q \in GetRequests : GetBadRequest(q)
    \/ Return

GetSpec == GetInit /\ [][GetNext]_vars

\* path names a file in directory dir or below it
Inside(dir, path) ==
    LET d == Split(Clean(dir), cSlash)
        f == Split(path, cSlash)
    IN Len(f) > Len(d) /\ SubSeq(f, 1, Len(d)) = d

\* C28: a request served by url is answered with a file inside the legacy
\* directory, whatever the url holds ("..", for instance), or with 404 and
\* no content.
C28_LegacyStaysInside ==
    (pc = "done" /\ ByUrl(urlQuery)) =>
        IF body # <<>>
        THEN /\ status = StatusOK
             /\ \E f \in Disk : Inside(config.LegacyPath, f.path) /\ body = <<f.data>>
        ELSE status = StatusNotFound

====
